---- MODULE Spec2Model ----
(***************************************************************************)
(* Control plane of the webmesh WireGuard overlay: the network-policy      *)
(* graph filter (pkg/meshdb/networking) and the WireGuard peer reconciler  *)
(* (package store).                                                         *)
(*                                                                         *)
(* The ACL evaluator (ACLs.Accept, ACLs.AllowNodesToCommunicate,           *)
(* ACLs.Expand), the peer graph builder and the WireGuard driver are       *)
(* outside the source files; they are modelled from the specification      *)
(* (sections 3, 4.3, 4.4 and 6) and are marked so where they are defined.  *)
(***************************************************************************)
EXTENDS Integers, Sequences, FiniteSets, TLC

\* ------------------------------------------------------------------ bounds

\* Largest number of edges of the mesh graph.
MaxEdges == 3
\* Largest number of edges of the graph the policy filter is run on.
MaxFilterEdges == 2
\* Number of hosts of the cluster's IPv4 prefix.
MaxHosts == 2

\* The largest value of the MaxJoinRetries option of a joining node.
MaxJoinRetries == 2

\* The number of writes committed while a store runs.
MaxWrites == 3

\* The node ids of the mesh.
NodeIDs == {"A", "B", "C", "D"}
\* The nodes registered where the policy filter is exercised; "D" is the id
\* the resolver does not know there.
PolicyNodeIDs == {"A", "B", "C"}
\* The node that joined without asking for an IPv4 lease.
NoLease == {"D"}

\* ---------------------------------------------------------------- prefixes

\* A parsed netip.Prefix: the address family and the network as its path of
\* labels below the family's root; a prefix contains every prefix whose path
\* extends its own.  fam = 0 is the zero Prefix (not valid, the empty string).
NoPrefix == [fam |-> 0, net |-> <<>>]
\* The literal "*" of a CIDR selector.
WildcardCIDR == [fam |-> 0, net |-> <<"*">>]
\* A destination CIDR that netip.ParsePrefix rejects.
BadCIDR == [fam |-> 0, net |-> <<"bad">>]

IsValid(p) == p.fam \in {4, 6}
Is4(p) == p.fam = 4

IsPrefixOf(s, t) ==
    /\ Len(s) <= Len(t)
    /\ \A i \in 1..Len(s) : s[i] = t[i]

Contains(outer, inner) ==
    /\ IsValid(outer)
    /\ outer.fam = inner.fam
    /\ IsPrefixOf(outer.net, inner.net)

\* The cluster prefixes (mesh-state/IPv4Prefix, mesh-state/ULAPrefix).
IPv4Prefix == [fam |-> 4, net |-> <<"10.0.0">>]
ULAPrefix == [fam |-> 6, net |-> <<"fd00">>]

\* Destinations a Route may advertise.
RouteV4 == [fam |-> 4, net |-> <<"192.168", "10">>]
RouteV4Super == [fam |-> 4, net |-> <<"192.168">>]
RouteV6 == [fam |-> 6, net |-> <<"2001:db8">>]

\* ------------------------------------------------------------------- state

VARIABLES
    meshNodes,   \* ids of the registered nodes (the graph's vertices)
    leases,      \* ids of the registered nodes that hold an IPv4 lease
    edges,       \* the graph's directed edges <<source, target>>
    acls,        \* the stored NetworkACLs, one per name
    routes,      \* the stored Routes, one per name
    filterRes,   \* what the last FilterGraph call returned
    againRes,    \* what FilterGraph returned on that call's own result
    nodeID,      \* s.nodeID: the id of the local node
    wg,          \* s.wg: "nil", "new" (created, no ConfigureWireguard has
                 \* returned nil yet) or "up" (one has)
    wgPeers,     \* the peers the WireGuard driver holds: id -> allowed IPs
    refreshRes,  \* what the last RefreshWireguardPeers call did and returned
    isLeader,    \* s.store.IsLeader(): this server is the Raft leader
    ulaPrefix,   \* s.ulaPrefix: invalid until the server has loaded the prefix
    peersTable,  \* the node records of the registry: id -> Node
    leaseTable,  \* the IPv4 leases: id -> host within the IPv4 prefix
    asnTable,    \* the ASN assignments: id -> ASN
    raftServers, \* the non-voters added to the Raft cluster: id -> address
    joinCalls,   \* the Join calls in progress: where each is, and its locals
    joinLog,     \* per id, the last Join when it succeeded
    putRes,      \* the error of the last PutNetworkACL and the ACL it refused
    joinLoop,    \* store.join on a joining node: its retry loop and context
    meshStore,   \* meshStore.Open: where it is, s.open, the subscription
    wgmux,       \* s.wgmux: the thread that holds it, 0 when it is free
    wgCalls,     \* the calls on the WireGuard state, one per thread
    wgDev        \* the WireGuard interface and the firewall as the driver
                 \* holds them: brought up, the routes added, the rules

joinVars == <<isLeader, ulaPrefix, peersTable, leaseTable, asnTable,
              raftServers, joinCalls, joinLog>>

runVars == <<putRes, joinLoop, meshStore, wgmux, wgCalls, wgDev>>

vars == <<meshNodes, leases, edges, acls, routes, filterRes, againRes,
          nodeID, wg, wgPeers, refreshRes, joinVars, runVars>>

meshVars == <<meshNodes, leases, edges>>
policyVars == <<acls, routes, filterRes, againRes>>
wireguardVars == <<nodeID, wg, wgPeers, refreshRes>>

\* ------------------------------------------------------------------- nodes

\* A registered node as the resolver returns it (peergraph.MeshNode): the
\* private IPv4 is the node's lease, when it holds one; the private IPv6 is
\* assigned to every node below the cluster's ULA prefix.
PrivateIpv4(id) ==
    IF id \in leases THEN [fam |-> 4, net |-> <<"10.0.0", id>>] ELSE NoPrefix

PrivateIpv6(id) == [fam |-> 6, net |-> <<"fd00", id>>]

MeshNode(id) ==
    [Id |-> id, PrivateIpv4 |-> PrivateIpv4(id), PrivateIpv6 |-> PrivateIpv6(id)]

\* resolver.Get succeeds for the registered nodes.
CanResolve(id) == id \in meshNodes

\* An adjacency map: node id -> the targets of its edges (an Edge carries
\* nothing beyond its two ends).  A Go nil map is the map with no rows.
EmptyMap == [n \in {} |-> {}]

\* The graph builder: every registered node has a row, every edge an entry
\* in its source's row.
BuildAdjacencyMap == [n \in meshNodes |-> {e[2] : e \in {f \in edges : f[1] = n}}]

\* ------------------------------------------------------------ policy engine

GroupReference == "group:"
\* The members of the groups the ACLs may refer to.
GroupMembers(ref) == IF ref = "group:ops" THEN {"B", "C"} ELSE {}
IsGroupReference(sel) == sel \in {"group:ops"}

\* Names in their lexicographic order, the tie-break of the ACL sort.
ACLNames == <<"acl-0", "acl-1", "acl-2">>
NameRank(name) == CHOOSE i \in 1..Len(ACLNames) : ACLNames[i] = name

\* ACLs.Expand: a group reference among the node selectors is replaced by the
\* group's members.
ExpandSelector(sel) ==
    {x \in sel : ~IsGroupReference(x)}
        \cup UNION {GroupMembers(x) : x \in {y \in sel : IsGroupReference(y)}}

ExpandACL(acl) ==
    [acl EXCEPT !.source_nodes = ExpandSelector(acl.source_nodes),
                !.destination_nodes = ExpandSelector(acl.destination_nodes)]

Expand(list) == {ExpandACL(a) : a \in list}

\* A node selector matches when it is empty, holds "*" or holds the node.
NodeSelectorMatches(sel, id) ==
    \/ sel = {}
    \/ "*" \in sel
    \/ id \in sel

\* A CIDR selector matches when it is empty, holds "*" or holds a prefix that
\* contains the action's.
CIDRSelectorMatches(sel, cidr) ==
    \/ sel = {}
    \/ WildcardCIDR \in sel
    \/ \E s \in sel : Contains(s, cidr)

Matches(acl, action) ==
    /\ NodeSelectorMatches(acl.source_nodes, action.SrcNode)
    /\ NodeSelectorMatches(acl.destination_nodes, action.DstNode)
    /\ CIDRSelectorMatches(acl.source_cidrs, action.SrcCidr)
    /\ CIDRSelectorMatches(acl.destination_cidrs, action.DstCidr)

\* The sort of the ACL list: ascending priority, then name.
Before(a, b) ==
    \/ a.priority < b.priority
    \/ a.priority = b.priority /\ NameRank(a.name) < NameRank(b.name)

RECURSIVE SortACLs(_)
SortACLs(list) ==
    IF list = {} THEN <<>>
    ELSE LET first == CHOOSE a \in list : \A b \in list \ {a} : Before(a, b)
         IN  <<first>> \o SortACLs(list \ {first})

\* ACLs.Accept: the first ACL of the sorted list that matches the action
\* decides; no match denies.
Accept(list, action) ==
    LET sorted == SortACLs(list)
        hits == {i \in 1..Len(sorted) : Matches(sorted[i], action)}
    IN  /\ hits # {}
        /\ sorted[CHOOSE i \in hits : \A j \in hits : i <= j].action = "ACCEPT"

NodeAction(a, b) ==
    [SrcNode |-> a.Id, SrcCidr |-> NoPrefix, DstNode |-> b.Id, DstCidr |-> NoPrefix]

\* ACLs.AllowNodesToCommunicate: accepted in both directions.
AllowNodesToCommunicate(list, nodeA, nodeB) ==
    /\ Accept(list, NodeAction(nodeA, nodeB))
    /\ Accept(list, NodeAction(nodeB, nodeA))


\* ------------------------------------------------------------------ routes

RouteNames == <<"route-0", "route-1">>
RouteRank(name) == CHOOSE i \in 1..Len(RouteNames) : RouteNames[i] = name

RECURSIVE SortRoutes(_)
SortRoutes(set) ==
    IF set = {} THEN <<>>
    ELSE LET first == CHOOSE r \in set :
                          \A q \in set \ {r} : RouteRank(r.name) < RouteRank(q.name)
         IN  <<first>> \o SortRoutes(set \ {first})

\* ListRoutes: the stored routes in key order.
ListRoutes == SortRoutes(routes)

\* GetRoutesByNode: the routes whose node is the given one, in list order.
GetRoutesByNode(nodeName) == SelectSeq(ListRoutes, LAMBDA r : r.node = nodeName)

RECURSIVE Flatten(_)
Flatten(seqs) == IF seqs = <<>> THEN <<>> ELSE Head(seqs) \o Flatten(Tail(seqs))

\* The destination CIDRs of a node's routes in the order FilterGraph's two
\* nested loops visit them.
DestinationCidrs(nodeName) ==
    LET rs == GetRoutesByNode(nodeName)
    IN  Flatten([i \in 1..Len(rs) |-> rs[i].destination_cidrs])

\* netip.ParsePrefix succeeds on a well-formed CIDR.
ParsePrefixOK(cidr) == IsValid(cidr)

\* ------------------------------------------------------------- FilterGraph

RouteActionAlwaysIPv4(thisNode, dstID, cidr) ==
    [SrcNode |-> thisNode.Id, SrcCidr |-> thisNode.PrivateIpv4,
     DstNode |-> dstID, DstCidr |-> cidr]

\* The NetworkAction FilterGraph builds for one advertised CIDR: the source
\* CIDR is the observer's private address of the CIDR's family.
RouteAction(thisNode, dstID, cidr) ==
    [SrcNode |-> thisNode.Id,
     SrcCidr |-> IF Is4(cidr) THEN thisNode.PrivateIpv4 ELSE thisNode.PrivateIpv6,
     DstNode |-> dstID,
     DstCidr |-> cidr]

\* The loop over a node's routes and their CIDRs: the first CIDR that does not
\* parse ends the call with an error, the first one Accept rejects drops the
\* node.
RECURSIVE RoutesVerdict(_, _, _, _)
RoutesVerdict(list, thisNode, dstID, cidrs) ==
    IF cidrs = <<>> THEN "keep"
    ELSE IF ~ParsePrefixOK(Head(cidrs)) THEN "error"
    ELSE IF ~Accept(list, RouteAction(thisNode, dstID, Head(cidrs))) THEN "drop"
    ELSE RoutesVerdict(list, thisNode, dstID, Tail(cidrs))

NodeVerdictSwallowsErrors(list, thisNode, peerNodeID, fault) ==
    IF ~CanResolve(peerNodeID) \/ fault \in {"get", "node"} THEN "drop"
    ELSE IF ~AllowNodesToCommunicate(list, thisNode, MeshNode(peerNodeID)) THEN "drop"
    ELSE IF fault = "routes" THEN "drop"
    ELSE RoutesVerdict(list, thisNode, peerNodeID, DestinationCidrs(peerNodeID))

\* The body of the Nodes loop for one node other than the observer.
NodeVerdict(list, thisNode, peerNodeID, fault) ==
    IF ~CanResolve(peerNodeID) \/ fault \in {"get", "node"} THEN "error"
    ELSE IF ~AllowNodesToCommunicate(list, thisNode, MeshNode(peerNodeID)) THEN "drop"
    ELSE IF fault = "routes" THEN "error"
    ELSE RoutesVerdict(list, thisNode, peerNodeID, DestinationCidrs(peerNodeID))

PeerVerdictUnchecked(list, thisNode, peerID, fault) ==
    IF ~CanResolve(peerID) \/ fault \in {"get", "node"} THEN "error" ELSE "keep"

PeerVerdictIgnoresRoutes(list, thisNode, peerID, fault) ==
    IF ~CanResolve(peerID) \/ fault \in {"get", "node"} THEN "error"
    ELSE IF ~AllowNodesToCommunicate(list, thisNode, MeshNode(peerID)) THEN "drop"
    ELSE "keep"

\* The body of the Peers loop for one edge target other than the observer.
PeerVerdict(list, thisNode, peerID, fault) ==
    IF ~CanResolve(peerID) \/ fault \in {"get", "node"} THEN "error"
    ELSE IF ~AllowNodesToCommunicate(list, thisNode, MeshNode(peerID)) THEN "drop"
    ELSE IF fault = "routes" THEN "error"
    ELSE RoutesVerdict(list, thisNode, peerID, DestinationCidrs(peerID))

FilterError == [err |-> TRUE, map |-> EmptyMap]

FirstPassSkipsEdgeless(list, fullMap, thisNode, fault) ==
    LET others == DOMAIN fullMap \ {thisNode.Id}
        verdict == [n \in others |-> NodeVerdict(list, thisNode, n, fault)]
        own == IF thisNode.Id \in DOMAIN fullMap THEN fullMap[thisNode.Id] ELSE {}
        ownLeft == own \ {n \in others : verdict[n] = "drop"}
    IN  [err |-> \E n \in others : verdict[n] = "error",
         own |-> ownLeft,
         kept |-> {n \in others : verdict[n] = "keep" /\ fullMap[n] # {}}]

\* The first loop: the observer's row is the full map's own row (the same Go
\* map, so the deletions reach the full map too), a dropped node is deleted
\* from it, a kept node gets an empty row.
FirstPass(list, fullMap, thisNode, fault) ==
    LET others == DOMAIN fullMap \ {thisNode.Id}
        verdict == [n \in others |-> NodeVerdict(list, thisNode, n, fault)]
        own == IF thisNode.Id \in DOMAIN fullMap THEN fullMap[thisNode.Id] ELSE {}
        ownLeft == own \ {n \in others : verdict[n] = "drop"}
    IN  [err |-> \E n \in others : verdict[n] = "error",
         own |-> ownLeft,
         kept |-> {n \in others : verdict[n] = "keep"}]

\* The second loop over the given rows: every row takes the edges of the full
\* map whose target is the observer (when toObserver) or passes the same
\* checks.  The observer's row already holds its edges, and a target that
\* fails the checks is skipped, not deleted.
SecondPassOver(rows, toObserver, list, fullMap, thisNode, first, fault) ==
    LET full == [n \in DOMAIN fullMap |->
                    IF n = thisNode.Id THEN first.own ELSE fullMap[n]]
        start == [n \in rows |-> IF n = thisNode.Id THEN first.own ELSE {}]
        targets(n) == IF n \in DOMAIN full THEN full[n] \ {thisNode.Id} ELSE {}
        keepSelf(n) ==
            IF n \in DOMAIN full /\ toObserver
            THEN full[n] \cap {thisNode.Id} ELSE {}
    IN  [err |-> \E n \in rows : \E p \in targets(n) :
                     PeerVerdict(list, thisNode, p, fault) = "error",
         map |-> [n \in rows |->
                     start[n] \cup keepSelf(n)
                        \cup {p \in targets(n) :
                                 PeerVerdict(list, thisNode, p, fault) = "keep"}]]

SecondPassNoObserverRow(list, fullMap, thisNode, first, fault) ==
    SecondPassOver(first.kept, TRUE, list, fullMap, thisNode, first, fault)

SecondPassDropsEdgesToObserver(list, fullMap, thisNode, first, fault) ==
    SecondPassOver({thisNode.Id} \cup first.kept, FALSE, list, fullMap, thisNode,
                   first, fault)

\* The second loop runs over the rows of the filtered map: the observer's and
\* the kept nodes'.
SecondPass(list, fullMap, thisNode, first, fault) ==
    SecondPassOver({thisNode.Id} \cup first.kept, TRUE, list, fullMap, thisNode,
                   first, fault)

\* len(acls) == 0
NoACLsNever(stored) == FALSE

NoACLs(stored) == stored = {}

\* networking.FilterGraph on the graph whose adjacency map is fullMap.  fault
\* names the storage call that fails in this call, if one does.
FilterGraph(stored, fullMap, thisNodeID, fault) ==
    IF ~CanResolve(thisNodeID) \/ fault = "get" THEN FilterError
    ELSE IF fault = "acls" THEN FilterError
    ELSE IF NoACLs(stored) THEN [err |-> FALSE, map |-> EmptyMap]
    ELSE IF fault \in {"expand", "graph"} THEN FilterError
    ELSE LET list == Expand(stored)
             thisNode == MeshNode(thisNodeID)
             first == FirstPass(list, fullMap, thisNode, fault)
         IN  IF first.err THEN FilterError
             ELSE LET second == SecondPass(list, fullMap, thisNode, first, fault)
                  IN  IF second.err THEN FilterError
                      ELSE [err |-> FALSE, map |-> second.map]


\* ----------------------------------------------------------- stored policy

ACL(name, priority, action, src, dst, srcCidrs, dstCidrs) ==
    [name |-> name, priority |-> priority, action |-> action,
     source_nodes |-> src, destination_nodes |-> dst,
     source_cidrs |-> srcCidrs, destination_cidrs |-> dstCidrs]

\* The NetworkACLs an admin puts.
ACLCatalogue ==
    { ACL("acl-0", 0, "DENY", {"*"}, {"C"}, {}, {}),
      ACL("acl-0", 0, "DENY", {}, {}, {}, {RouteV4Super}),
      ACL("acl-0", 0, "DENY", {}, {}, {ULAPrefix}, {WildcardCIDR}),
      ACL("acl-0", 0, "ACCEPT", {"A"}, {"group:ops"}, {}, {}),
      ACL("acl-1", 1, "ACCEPT", {"*"}, {"*"}, {WildcardCIDR}, {WildcardCIDR}),
      ACL("acl-1", 1, "ACCEPT", {"A", "B"}, {"A", "B"}, {}, {}),
      ACL("acl-2", 0, "ACCEPT", {"group:ops"}, {"A"}, {}, {}),
      ACL("acl-2", 0, "ACCEPT", {}, {}, {}, {}) }

Route(name, node, cidrs) ==
    [name |-> name, node |-> node, destination_cidrs |-> cidrs]

\* The Routes an admin puts.
RouteCatalogue ==
    { Route("route-0", "C", <<RouteV4>>),
      Route("route-0", "B", <<RouteV4, RouteV6>>),
      Route("route-0", "C", <<RouteV6, BadCIDR>>),
      Route("route-1", "C", <<RouteV6>>) }

NoCall ==
    [called |-> FALSE, observer |-> "", fault |-> "none", err |-> FALSE,
     map |-> EmptyMap]

\* What a call of RefreshWireguardPeers did: whether it returned an error,
\* whether walkMeshDescendants failed (which is only logged), and the peers
\* it issued a successful PutPeer for.
NoRefresh ==
    [called |-> FALSE, err |-> FALSE, walkErr |-> FALSE, peers |-> EmptyMap]

\* The call that fails inside one FilterGraph: resolver.Get (for every id:
\* "get", for the ids other than the observer's: "node"), ListNetworkACLs,
\* Expand, BuildAdjacencyMap, GetRoutesByNode.
Faults == {"none", "acls", "expand", "graph", "get", "node", "routes"}

\* What PutNetworkACL leaves when it returns nil, and before any call.
PutOK == [err |-> "nil", acl |-> ACL("", 0, "", {}, {}, {}, {})]

\* store.join before it is called: the option MaxJoinRetries (max), the
\* locals tries and resp (FALSE for nil), the dials (attempts) and Join RPCs
\* it has made, whether its context is cancelled, and what it returned.
NoLoop ==
    [pc |-> "idle", max |-> 0, tries |-> 0, attempts |-> 0, rpcs |-> 0,
     resp |-> FALSE, ctxDone |-> FALSE, ret |-> "", configured |-> 0]

\* A meshStore before Open: s.open is false, the Raft node is not started,
\* nothing is subscribed; no write is committed, no callback is fired or
\* pending, and no reconcile is run.
Closed ==
    [pc |-> "closed", open |-> FALSE, raft |-> FALSE, subscribed |-> FALSE,
     ret |-> "", pending |-> <<>>, writes |-> 0, fired |-> 0,
     reconciles |-> 0, again |-> ""]

\* The threads that call into the WireGuard state, and a thread that is in
\* no call.  A call holds the operation (op), where it is (pc), the peers it
\* has still to put (todo) and has put (put), what it returns (ret), whether
\* the graph build, walkMeshDescendants or a PutPeer failed, and whether it
\* has read or used s.wg (bare), or called the driver (bareCall), without
\* holding s.wgmux.  stalled holds the peers whose PutPeer was issued and has
\* not returned.  Of a ConfigureWireguard call it holds the step that
\* failed other than an AddRoute (failed), what the driver answered to its
\* AddRoute calls (addRoute), and whether it added the forwarding rule.
Threads == {1, 2}
IdleThread ==
    [op |-> "none", pc |-> "idle", todo |-> {}, put |-> {}, stalled |-> {},
     ret |-> "", failed |-> "", addRoute |-> {}, forwarded |-> FALSE,
     buildErr |-> FALSE, walkErr |-> FALSE, putErr |-> FALSE,
     bare |-> FALSE, bareCall |-> FALSE]

\* No interface: nothing brought up, no route, no firewall rule.
NoDevice == [up |-> FALSE, routes |-> {}, forwarding |-> FALSE]

\* Nothing but the components a specification is about is running.
Quiet ==
    /\ putRes = PutOK
    /\ joinLoop = NoLoop
    /\ meshStore = Closed
    /\ wgmux = 0
    /\ wgCalls = [t \in Threads |-> IdleThread]
    /\ wgDev = NoDevice

\* ----------------------------------------------------------------- actions

\* The store's operations are taken between two calls of FilterGraph: filterRes
\* and againRes hold what a call returned until its caller has taken it.  A
\* change of the policy or of the graph likewise ends the record of the last
\* reconcile.

\* ValidateACL: the action is known, every CIDR parses (the wildcard is
\* one), and no group reference is cyclic.
KnownActions == {"ACCEPT", "DENY"}
CyclicGroups == {"group:loop"}

ValidateACLIgnoringCidrs(acl) ==
    /\ acl.action \in KnownActions
    /\ (acl.source_nodes \cup acl.destination_nodes) \cap CyclicGroups = {}

ValidateACL(acl) ==
    /\ acl.action \in KnownActions
    /\ \A cidr \in acl.source_cidrs \cup acl.destination_cidrs :
          IsValid(cidr) \/ cidr = WildcardCIDR
    /\ (acl.source_nodes \cup acl.destination_nodes) \cap CyclicGroups = {}

\* The error PutNetworkACL returns: that of the validation, of the
\* marshalling or of PutValue (fault names the one that fails), or nil.
PutError(acl, fault) ==
    IF ~ValidateACL(acl) THEN "ErrInvalidACL"
    ELSE IF fault = "marshal" THEN "marshal network acl"
    ELSE IF fault = "put" THEN "put network acl"
    ELSE "nil"

WrittenAlways(err) == TRUE

\* PutValue has stored the ACL only when no error is returned.
Written(err) == err = "nil"

\* PutNetworkACL: the ACL is validated and stored under its name.  putRes
\* holds the error and the ACL of a call that failed.
PutNetworkACL(acl, fault) ==
    LET err == PutError(acl, fault)
    IN  /\ ~filterRes.called
        /\ acls' = IF Written(err)
                   THEN {a \in acls : a.name # acl.name} \cup {acl}
                   ELSE acls
        /\ putRes' = IF err = "nil" THEN PutOK ELSE [err |-> err, acl |-> acl]
        /\ filterRes' = NoCall
        /\ againRes' = NoCall
        /\ refreshRes' = NoRefresh
        /\ UNCHANGED <<meshNodes, leases, edges, routes, nodeID, wg, wgPeers,
                       joinVars, joinLoop, meshStore, wgmux, wgCalls, wgDev>>

\* DeleteNetworkACL: the key is deleted; a missing key is no error.
DeleteNetworkACL(name) ==
    /\ ~filterRes.called
    /\ acls' = {a \in acls : a.name # name}
    /\ filterRes' = NoCall
    /\ againRes' = NoCall
    /\ refreshRes' = NoRefresh
    /\ UNCHANGED <<meshNodes, leases, edges, routes, nodeID, wg, wgPeers, joinVars, runVars>>

\* PutRoute: the route is stored under its name.
PutRoute(route) ==
    /\ ~filterRes.called
    /\ routes' = {r \in routes : r.name # route.name} \cup {route}
    /\ filterRes' = NoCall
    /\ againRes' = NoCall
    /\ refreshRes' = NoRefresh
    /\ UNCHANGED <<meshNodes, leases, edges, acls, nodeID, wg, wgPeers, joinVars, runVars>>

\* DeleteRoute: the key is deleted; a missing key is no error.
DeleteRoute(name) ==
    /\ ~filterRes.called
    /\ routes' = {r \in routes : r.name # name}
    /\ filterRes' = NoCall
    /\ againRes' = NoCall
    /\ refreshRes' = NoRefresh
    /\ UNCHANGED <<meshNodes, leases, edges, acls, nodeID, wg, wgPeers, joinVars, runVars>>

\* An edge between two registered nodes enters the graph.
PutEdge(from, to, bound) ==
    /\ ~filterRes.called
    /\ from \in meshNodes
    /\ to \in meshNodes
    /\ from # to
    /\ <<from, to>> \notin edges
    /\ Cardinality(edges) < bound
    /\ edges' = edges \cup {<<from, to>>}
    /\ filterRes' = NoCall
    /\ againRes' = NoCall
    /\ refreshRes' = NoRefresh
    /\ UNCHANGED <<meshNodes, leases, acls, routes, nodeID, wg, wgPeers, joinVars, runVars>>

\* An edge leaves the graph.
RemoveEdge(from, to) ==
    /\ ~filterRes.called
    /\ <<from, to>> \in edges
    /\ edges' = edges \ {<<from, to>>}
    /\ filterRes' = NoCall
    /\ againRes' = NoCall
    /\ refreshRes' = NoRefresh
    /\ UNCHANGED <<meshNodes, leases, acls, routes, nodeID, wg, wgPeers, joinVars, runVars>>

\* A call of FilterGraph on the mesh graph for the observer thisNodeID.
CallFilterGraph(thisNodeID, fault) ==
    /\ ~filterRes.called
    /\ LET res == FilterGraph(acls, BuildAdjacencyMap, thisNodeID, fault)
       IN  filterRes' = [called |-> TRUE, observer |-> thisNodeID,
                         fault |-> fault, err |-> res.err, map |-> res.map]
    /\ againRes' = NoCall
    /\ UNCHANGED <<meshNodes, leases, edges, acls, routes, wireguardVars, joinVars, runVars>>

\* A call of FilterGraph, for the same observer, on the graph the last call
\* returned.
CallFilterGraphAgain ==
    /\ filterRes.called
    /\ ~filterRes.err
    /\ ~againRes.called
    /\ LET res == FilterGraph(acls, filterRes.map, filterRes.observer, "none")
       IN  againRes' = [called |-> TRUE, observer |-> filterRes.observer,
                        fault |-> "none", err |-> res.err, map |-> res.map]
    /\ UNCHANGED <<meshNodes, leases, edges, acls, routes, filterRes, wireguardVars, joinVars, runVars>>

\* The caller takes what FilterGraph returned.
ReturnFilterGraph ==
    /\ filterRes.called
    /\ filterRes' = NoCall
    /\ againRes' = NoCall
    /\ UNCHANGED <<meshNodes, leases, edges, acls, routes, wireguardVars, joinVars, runVars>>

\* ------------------------------------------------------ the peer registry

\* The ids a Join may carry, and the slots of the Join calls a server runs.
JoinIDs == {"X", "Y"}
Calls == {1, 2}

\* The hosts of the cluster's IPv4 prefix, and the host parts util.Random64
\* may draw for a node's IPv6 network.
IPv4Hosts == 1..MaxHosts
IPv6Hosts == {"r1", "r2"}

\* wgtypes.ParseKey: a well-formed key string parses to a Key; Key.String
\* gives the string back.
KeyStrings == {"K1", "K2"}
ParseKey(str) ==
    IF str \in KeyStrings THEN [ok |-> TRUE, key |-> <<"key", str>>]
    ELSE [ok |-> FALSE, key |-> <<"key", "">>]
KeyString(key) == key[2]

\* netip.ParseAddrPort; the zero AddrPort is the endpoint of a request that
\* carries none.
EndpointStrings == {"E1"}
ZeroAddrPort == <<"addrport", "">>
ParseAddrPort(str) ==
    IF str \in EndpointStrings THEN [ok |-> TRUE, ap |-> <<"addrport", str>>]
    ELSE [ok |-> FALSE, ap |-> ZeroAddrPort]
AddrPortString(ap) == IF ap = ZeroAddrPort THEN "invalid AddrPort" ELSE ap[2]

\* The value of a peers.Node variable that holds no node.
NoNode == [ID |-> ""]

\* peers.Get: the stored record with the node's ASN and leased IPv4 host
\* (0 when it has none).
NodeOf(id) ==
    [ID |-> id,
     PublicKey |-> peersTable[id].PublicKey,
     Endpoint |-> peersTable[id].Endpoint,
     NetworkIPv6 |-> peersTable[id].NetworkIPv6,
     GRPCPort |-> peersTable[id].GRPCPort,
     RaftPort |-> peersTable[id].RaftPort,
     AllowedIPs |-> peersTable[id].AllowedIPs,
     AvailableZones |-> peersTable[id].AvailableZones,
     ASN |-> IF id \in DOMAIN asnTable THEN asnTable[id] ELSE 0,
     PrivateIPv4 |-> IF id \in DOMAIN leaseTable THEN leaseTable[id] ELSE 0]

NodeExists(id) == id \in DOMAIN peersTable

\* The columns of a node's row (raftdb.Node): what Create and Update persist.
NodeRow(peer) ==
    [PublicKey |-> peer.PublicKey,
     Endpoint |-> peer.Endpoint,
     NetworkIPv6 |-> peer.NetworkIPv6,
     GRPCPort |-> peer.GRPCPort,
     RaftPort |-> peer.RaftPort,
     AllowedIPs |-> peer.AllowedIPs,
     AvailableZones |-> peer.AvailableZones]

\* A table with one row put.
PutRow(table, id, row) ==
    [k \in DOMAIN table \cup {id} |-> IF k = id THEN row ELSE table[k]]

\* peers.AssignASN: the next value of a counter that only grows.
Max(set) == CHOOSE m \in set : \A n \in set : n <= m
NextASN(table) == 1 + Max({0} \cup {table[k] : k \in DOMAIN table})

\* ipam.Acquire: the lease the node already holds or, for a node that holds
\* none, the first free host of the IPv4 prefix; 0 when no host is free.
AcquireAlwaysFirstFree(table, id) ==
    LET free == IPv4Hosts \ {table[k] : k \in DOMAIN table}
    IN  IF free = {} THEN 0 ELSE CHOOSE h \in free : \A g \in free : h <= g

AcquireFirstHost(table, id) == CHOOSE h \in IPv4Hosts : \A g \in IPv4Hosts : h <= g

Acquire(table, id) ==
    IF id \in DOMAIN table THEN table[id]
    ELSE LET free == IPv4Hosts \ {table[k] : k \in DOMAIN table}
         IN  IF free = {} THEN 0 ELSE CHOOSE h \in free : \A g \in free : h <= g

\* peers.ListPeers: every registered node but the one named.
ListPeers(id) == [k \in DOMAIN peersTable \ {id} |-> NodeOf(k)]

\* ---------------------------------------------------- the join coordinator

\* A v1.JoinRequest.
JoinRequest(id, key, endpoint, raftPort, assignIpv4, preferRaftIpv6, assignAsn) ==
    [Id |-> id, PublicKey |-> key, Endpoint |-> endpoint,
     GrpcPort |-> 8443, RaftPort |-> raftPort,
     AllowedIps |-> {}, AvailableZones |-> {},
     AssignIpv4 |-> assignIpv4, PreferRaftIpv6 |-> preferRaftIpv6,
     AssignAsn |-> assignAsn]

NoRequest == JoinRequest("", "", "", 0, FALSE, FALSE, FALSE)

\* A v1.JoinResponse; AddressIpv4 is the leased host, 0 where Go has "".
NoResponse ==
    [NetworkIpv6 |-> "", Asn |-> 0, AddressIpv4 |-> 0, Peers |-> EmptyMap]

\* A Join call: where it is, its request, its locals peer and lease, and
\* what it returned (resp is NoResponse for Go's nil; code is the gRPC code).
IdleCall ==
    [pc |-> "idle", req |-> NoRequest, peer |-> NoNode, lease |-> 0,
     resp |-> NoResponse, code |-> ""]

\* No Join has been received.
NoJoin ==
    /\ isLeader = FALSE
    /\ ulaPrefix = NoPrefix
    /\ peersTable = EmptyMap
    /\ leaseTable = EmptyMap
    /\ asnTable = EmptyMap
    /\ raftServers = EmptyMap
    /\ joinCalls = [c \in Calls |-> IdleCall]
    /\ joinLog = [id \in JoinIDs |-> <<>>]

tableVars == <<peersTable, leaseTable, asnTable, raftServers>>
nonJoinVars == <<edges, policyVars, wireguardVars, runVars>>

\* The log of the Joins: per id, the last Join when it succeeded (its
\* request, the address of its response and the node as it was stored then),
\* and nothing when it failed.  A Join is logged when its caller has its result.
LogSuccess(id, req, resp, node) ==
    [joinLog EXCEPT ![id] =
        <<[req |-> req, AddressIpv4 |-> resp.AddressIpv4, node |-> node]>>]

LogFailure(id) ==
    IF id \in JoinIDs THEN [joinLog EXCEPT ![id] = <<>>] ELSE joinLog

\* return nil, status.Errorf(code, ...)
ReturnError(c, req, code) ==
    /\ joinCalls' = [joinCalls EXCEPT ![c] =
                        [@ EXCEPT !.pc = "done", !.req = req,
                                  !.resp = NoResponse, !.code = code]]
    /\ UNCHANGED joinLog

NotLeaderNever(leader) == FALSE

\* !s.store.IsLeader()
NotLeader(leader) == ~leader

\* The validation of the request's id, public key and endpoint.
ValidRequestIgnoringKey(req) ==
    /\ req.Id # ""
    /\ req.Endpoint # "" => ParseAddrPort(req.Endpoint).ok

ValidRequest(req) ==
    /\ req.Id # ""
    /\ ParseKey(req.PublicKey).ok
    /\ req.Endpoint # "" => ParseAddrPort(req.Endpoint).ok

\* Join up to the validation of its inputs: the leader check, the loading of
\* the ULA prefix on the first call (ulaFault: "get" or "parse" when that
\* fails), and the validation.
JoinBegin(c, req, ulaFault) ==
    /\ joinCalls[c].pc = "idle"
    /\ IsValid(ulaPrefix) => ulaFault = "none"
    /\ IF NotLeader(isLeader)
       THEN /\ ReturnError(c, req, "FailedPrecondition")
            /\ UNCHANGED ulaPrefix
       ELSE IF ulaFault # "none"
       THEN /\ ReturnError(c, req, "Internal")
            /\ UNCHANGED ulaPrefix
       ELSE /\ ulaPrefix' = ULAPrefix
            /\ IF ~ValidRequest(req)
               THEN ReturnError(c, req, "InvalidArgument")
               ELSE /\ joinCalls' = [joinCalls EXCEPT ![c] =
                                        [IdleCall EXCEPT !.pc = "get", !.req = req]]
                    /\ UNCHANGED joinLog
    /\ UNCHANGED <<meshNodes, leases, nonJoinVars, isLeader, tableVars>>

\* Where Join goes after s.peers.Get: to the update of the node that exists,
\* or to the creation of a new one.
AfterGetSkipsCreate(found) == IF found THEN "update" ELSE "lease"

AfterGetAlwaysCreates(found) == "create"

AfterGet(found) == IF found THEN "update" ELSE "create"

\* s.peers.Get: the check whether the peer already exists.
JoinGet(c, fault) ==
    LET call == joinCalls[c]
        id == call.req.Id
    IN  /\ call.pc = "get"
        /\ IF fault
           THEN ReturnError(c, call.req, "Internal")
           ELSE /\ joinCalls' = [joinCalls EXCEPT ![c] =
                      [@ EXCEPT !.pc = AfterGet(NodeExists(id)),
                                !.peer = IF NodeExists(id) THEN NodeOf(id)
                                         ELSE NoNode]]
                /\ UNCHANGED joinLog
        /\ UNCHANGED <<meshNodes, leases, nonJoinVars, isLeader, ulaPrefix,
                       tableVars>>

\* The update of the fields of an existing peer from the request.
MergeKeepsKey(peer, req) ==
    [peer EXCEPT
        !.GRPCPort = req.GrpcPort,
        !.RaftPort = req.RaftPort,
        !.Endpoint = IF req.Endpoint # "" THEN ParseAddrPort(req.Endpoint).ap
                     ELSE ZeroAddrPort,
        !.AllowedIPs = req.AllowedIps,
        !.AvailableZones = req.AvailableZones]

Merge(peer, req) ==
    LET publicKey == ParseKey(req.PublicKey).key
        endpoint == IF req.Endpoint # "" THEN ParseAddrPort(req.Endpoint).ap
                    ELSE ZeroAddrPort
    IN  [peer EXCEPT
            !.PublicKey = IF KeyString(@) # KeyString(publicKey)
                          THEN publicKey ELSE @,
            !.GRPCPort = IF @ # req.GrpcPort THEN req.GrpcPort ELSE @,
            !.RaftPort = IF @ # req.RaftPort THEN req.RaftPort ELSE @,
            !.Endpoint = IF @ # endpoint THEN endpoint ELSE @,
            !.AllowedIPs = IF @ # req.AllowedIps THEN req.AllowedIps ELSE @,
            !.AvailableZones = IF @ # req.AvailableZones
                               THEN req.AvailableZones ELSE @]

\* The response as it is first built: the peer's IPv6 network and ASN.
FirstResponse(peer) ==
    [NoResponse EXCEPT !.NetworkIpv6 = peer.NetworkIPv6, !.Asn = peer.ASN]

\* Where Join goes once the peer is stored: to the ASN assignment when one
\* is asked for and the peer has none, else to the lease when one is asked
\* for, else to the addition of the non-voter.
AfterASN(req) == IF req.AssignIpv4 THEN "lease" ELSE "raft"

AfterWriteAlwaysAssigns(req, peer) ==
    IF req.AssignAsn THEN "asn" ELSE AfterASN(req)

AfterWrite(req, peer) ==
    IF req.AssignAsn /\ peer.ASN = 0 THEN "asn" ELSE AfterASN(req)

\* s.peers.Update of the peer that exists.
JoinUpdate(c, fault) ==
    LET call == joinCalls[c]
        id == call.req.Id
        peer == Merge(call.peer, call.req)
    IN  /\ call.pc = "update"
        /\ IF fault
           THEN /\ ReturnError(c, call.req, "Internal")
                /\ UNCHANGED peersTable
           ELSE /\ peersTable' = PutRow(peersTable, id, NodeRow(peer))
                /\ joinCalls' = [joinCalls EXCEPT ![c] =
                      [@ EXCEPT !.pc = AfterWrite(call.req, peer),
                                !.peer = peer,
                                !.resp = FirstResponse(peer)]]
                /\ UNCHANGED joinLog
        /\ meshNodes' = DOMAIN peersTable'
        /\ UNCHANGED <<leases, nonJoinVars, isLeader, ulaPrefix, leaseTable,
                       asnTable, raftServers>>

\* util.Random64 and s.peers.Create of a new peer.  Create checks and writes
\* in one step and fails for an id that has a record; it assigns the ASN
\* when the options ask for one.
JoinCreate(c, networkIPv6, fault) ==
    LET call == joinCalls[c]
        req == call.req
        id == req.Id
        asn == IF req.AssignAsn THEN NextASN(asnTable) ELSE 0
        peer == [ID |-> id,
                 PublicKey |-> ParseKey(req.PublicKey).key,
                 Endpoint |-> IF req.Endpoint # ""
                              THEN ParseAddrPort(req.Endpoint).ap
                              ELSE ZeroAddrPort,
                 NetworkIPv6 |-> networkIPv6,
                 GRPCPort |-> req.GrpcPort,
                 RaftPort |-> req.RaftPort,
                 AllowedIPs |-> req.AllowedIps,
                 AvailableZones |-> req.AvailableZones,
                 ASN |-> asn,
                 PrivateIPv4 |-> 0]
    IN  /\ call.pc = "create"
        /\ IF fault \/ NodeExists(id)
           THEN /\ ReturnError(c, req, "Internal")
                /\ UNCHANGED <<peersTable, asnTable>>
           ELSE /\ peersTable' = PutRow(peersTable, id, NodeRow(peer))
                /\ asnTable' = IF req.AssignAsn
                               THEN PutRow(asnTable, id, asn) ELSE asnTable
                /\ joinCalls' = [joinCalls EXCEPT ![c] =
                      [@ EXCEPT !.pc = AfterWrite(req, peer),
                                !.peer = peer,
                                !.resp = FirstResponse(peer)]]
                /\ UNCHANGED joinLog
        /\ meshNodes' = DOMAIN peersTable'
        /\ UNCHANGED <<leases, nonJoinVars, isLeader, ulaPrefix, leaseTable,
                       raftServers>>

\* s.peers.AssignASN for a peer that has no ASN.
JoinAssignASN(c, fault) ==
    LET call == joinCalls[c]
        id == call.req.Id
        asn == NextASN(asnTable)
    IN  /\ call.pc = "asn"
        /\ IF fault
           THEN /\ ReturnError(c, call.req, "Internal")
                /\ UNCHANGED asnTable
           ELSE /\ asnTable' = PutRow(asnTable, id, asn)
                /\ joinCalls' = [joinCalls EXCEPT ![c] =
                      [@ EXCEPT !.pc = AfterASN(call.req), !.resp.Asn = asn]]
                /\ UNCHANGED joinLog
        /\ UNCHANGED <<meshNodes, leases, nonJoinVars, isLeader, ulaPrefix,
                       peersTable, leaseTable, raftServers>>

\* s.ipam.Acquire; it fails when the storage fails and when no host is free.
JoinAcquire(c, fault) ==
    LET call == joinCalls[c]
        id == call.req.Id
        lease == Acquire(leaseTable, id)
    IN  /\ call.pc = "lease"
        /\ IF fault \/ lease = 0
           THEN /\ ReturnError(c, call.req, "Internal")
                /\ UNCHANGED leaseTable
           ELSE /\ leaseTable' = PutRow(leaseTable, id, lease)
                /\ joinCalls' = [joinCalls EXCEPT ![c] =
                      [@ EXCEPT !.pc = "raft", !.lease = lease,
                                !.resp.AddressIpv4 = lease]]
                /\ UNCHANGED joinLog
        /\ leases' = DOMAIN leaseTable'
        /\ UNCHANGED <<meshNodes, nonJoinVars, isLeader, ulaPrefix,
                       peersTable, asnTable, raftServers>>

\* The address the joiner is added to the Raft cluster at.
RaftAddressAlwaysIPv6(req, lease, peer) ==
    [family |-> 6, host |-> peer.NetworkIPv6, port |-> peer.RaftPort]

RaftAddress(req, lease, peer) ==
    IF req.AssignIpv4 /\ ~req.PreferRaftIpv6
    THEN [family |-> 4, host |-> lease, port |-> peer.RaftPort]
    ELSE [family |-> 6, host |-> peer.NetworkIPv6, port |-> peer.RaftPort]

\* s.store.AddNonVoter
JoinAddNonVoter(c, fault) ==
    LET call == joinCalls[c]
        id == call.req.Id
        raftAddress == RaftAddress(call.req, call.lease, call.peer)
    IN  /\ call.pc = "raft"
        /\ IF fault
           THEN /\ ReturnError(c, call.req, "Internal")
                /\ UNCHANGED raftServers
           ELSE /\ raftServers' = PutRow(raftServers, id, raftAddress)
                /\ joinCalls' = [joinCalls EXCEPT ![c] = [@ EXCEPT !.pc = "list"]]
                /\ UNCHANGED joinLog
        /\ UNCHANGED <<meshNodes, leases, nonJoinVars, isLeader, ulaPrefix,
                       peersTable, leaseTable, asnTable>>

\* The v1.WireguardPeer of the response for one listed peer.
WireguardPeer(peer) ==
    [PublicKey |-> KeyString(peer.PublicKey),
     Asn |-> peer.ASN,
     Endpoint |-> AddrPortString(peer.Endpoint),
     AddressIpv4 |-> peer.PrivateIPv4,
     AddressIpv6 |-> peer.NetworkIPv6,
     AllowedIps |-> peer.AllowedIPs]

\* The id Join lists the peers without.
ExcludedNone(req) == ""

Excluded(req) == req.Id

\* s.peers.ListPeers and the return of the response.
JoinListPeers(c, fault) ==
    LET call == joinCalls[c]
        id == call.req.Id
        peers == ListPeers(Excluded(call.req))
        resp == [call.resp EXCEPT
                    !.Peers = [k \in DOMAIN peers |-> WireguardPeer(peers[k])]]
    IN  /\ call.pc = "list"
        /\ IF fault
           THEN ReturnError(c, call.req, "Internal")
           ELSE /\ joinCalls' = [joinCalls EXCEPT ![c] =
                      [@ EXCEPT !.pc = "done", !.resp = resp, !.code = "OK"]]
                /\ UNCHANGED joinLog
        /\ UNCHANGED <<meshNodes, leases, nonJoinVars, isLeader, ulaPrefix,
                       tableVars>>

\* The caller has the result of its Join.
JoinReturn(c) ==
    LET call == joinCalls[c]
        id == call.req.Id
    IN  /\ call.pc = "done"
        /\ joinCalls' = [joinCalls EXCEPT ![c] = IdleCall]
        /\ joinLog' = IF call.code = "OK"
                      THEN LogSuccess(id, call.req, call.resp, NodeOf(id))
                      ELSE LogFailure(id)
        /\ UNCHANGED <<meshNodes, leases, nonJoinVars, isLeader, ulaPrefix,
                       tableVars>>

\* The server gains or loses the leadership of the Raft cluster.
ChangeLeader ==
    /\ isLeader' = ~isLeader
    /\ UNCHANGED <<meshNodes, leases, nonJoinVars, ulaPrefix, tableVars,
                   joinCalls, joinLog>>

\* The Join requests the nodes send: first joins and re-joins of "X" and
\* "Y", with and without an IPv4 lease, an ASN and an endpoint, and requests
\* that fail the validation.
JoinRequests ==
    { JoinRequest("X", "K1", "", 9443, TRUE, FALSE, FALSE),
      JoinRequest("X", "K2", "", 9443, TRUE, FALSE, FALSE),
      JoinRequest("X", "K1", "E1", 9444, FALSE, FALSE, TRUE),
      JoinRequest("X", "K1", "", 9443, TRUE, TRUE, TRUE),
      JoinRequest("Y", "K2", "", 9443, TRUE, FALSE, FALSE),
      JoinRequest("", "K1", "", 9443, TRUE, FALSE, FALSE),
      JoinRequest("X", "not-a-key", "", 9443, TRUE, FALSE, FALSE),
      JoinRequest("Y", "K1", "not-an-endpoint", 9443, TRUE, FALSE, FALSE) }

\* The requests of the Joins that run at the same time.
RaceRequests ==
    { JoinRequest("X", "K1", "", 9443, TRUE, FALSE, FALSE),
      JoinRequest("X", "K1", "", 9443, TRUE, FALSE, TRUE),
      JoinRequest("Y", "K2", "", 9443, TRUE, FALSE, FALSE) }

ULAFaults == {"none", "get", "parse"}

\* The steps of the Join calls of a set of slots, for a set of requests.
JoinSteps(slots, requests, random64) ==
    \/ \E c \in slots, req \in requests, ulaFault \in ULAFaults :
           JoinBegin(c, req, ulaFault)
    \/ \E c \in slots, fault \in BOOLEAN : JoinGet(c, fault)
    \/ \E c \in slots, fault \in BOOLEAN : JoinUpdate(c, fault)
    \/ \E c \in slots, networkIPv6 \in random64, fault \in BOOLEAN :
           JoinCreate(c, networkIPv6, fault)
    \/ \E c \in slots, fault \in BOOLEAN : JoinAssignASN(c, fault)
    \/ \E c \in slots, fault \in BOOLEAN : JoinAcquire(c, fault)
    \/ \E c \in slots, fault \in BOOLEAN : JoinAddNonVoter(c, fault)
    \/ \E c \in slots, fault \in BOOLEAN : JoinListPeers(c, fault)
    \/ \E c \in slots : JoinReturn(c)

\* A server with an empty registry that is not serving the policy filter or
\* the reconciler.
InitJoin ==
    /\ meshNodes = {}
    /\ leases = {}
    /\ edges = {}
    /\ acls = {}
    /\ routes = {}
    /\ filterRes = NoCall
    /\ againRes = NoCall
    /\ nodeID = "A"
    /\ wg = "nil"
    /\ wgPeers = EmptyMap
    /\ refreshRes = NoRefresh
    /\ NoJoin
    /\ Quiet

\* Joins served one after the other.
NextJoin ==
    \/ ChangeLeader
    \/ JoinSteps({1}, JoinRequests, IPv6Hosts)

SpecJoin == InitJoin /\ [][NextJoin]_vars

\* Joins served at the same time, by a leader that has served Joins before.
InitJoinRace ==
    /\ meshNodes = {}
    /\ leases = {}
    /\ edges = {}
    /\ acls = {}
    /\ routes = {}
    /\ filterRes = NoCall
    /\ againRes = NoCall
    /\ nodeID = "A"
    /\ wg = "nil"
    /\ wgPeers = EmptyMap
    /\ refreshRes = NoRefresh
    /\ isLeader = TRUE
    /\ ulaPrefix = ULAPrefix
    /\ peersTable = EmptyMap
    /\ leaseTable = EmptyMap
    /\ asnTable = EmptyMap
    /\ raftServers = EmptyMap
    /\ joinCalls = [c \in Calls |-> IdleCall]
    /\ joinLog = [id \in JoinIDs |-> <<>>]
    /\ Quiet

NextJoinRace == JoinSteps(Calls, RaceRequests, {"r1"})

SpecJoinRace == InitJoinRace /\ [][NextJoinRace]_vars

\* ------------------------------------------------- the policy filter's runs

InitFilter ==
    /\ meshNodes = PolicyNodeIDs
    /\ leases = PolicyNodeIDs
    /\ edges = {}
    /\ acls = {}
    /\ routes = {}
    /\ filterRes = NoCall
    /\ againRes = NoCall
    /\ nodeID = "A"
    /\ wg = "nil"
    /\ wgPeers = EmptyMap
    /\ refreshRes = NoRefresh
    /\ NoJoin
    /\ Quiet

NextFilter ==
    \/ \E acl \in ACLCatalogue : PutNetworkACL(acl, "none")
    \/ \E i \in 1..Len(ACLNames) : DeleteNetworkACL(ACLNames[i])
    \/ \E route \in RouteCatalogue : PutRoute(route)
    \/ \E i \in 1..Len(RouteNames) : DeleteRoute(RouteNames[i])
    \/ \E from, to \in PolicyNodeIDs : PutEdge(from, to, MaxFilterEdges)
    \/ \E from, to \in PolicyNodeIDs : RemoveEdge(from, to)
    \/ \E id \in NodeIDs, fault \in Faults : CallFilterGraph(id, fault)
    \/ CallFilterGraphAgain
    \/ ReturnFilterGraph

SpecFilter == InitFilter /\ [][NextFilter]_vars


\* ------------------------------------------------------ the peer reconciler

\* graph.Vertex: the node stored for an id; the zero Node, with no valid
\* prefix, when there is none (walkMeshDescendants drops the error).
ValidPrefixes(id) ==
    IF id \in meshNodes
    THEN {p \in {PrivateIpv4(id), PrivateIpv6(id)} : IsValid(p)}
    ELSE {}

OurDescendantsAndParents(adjacencyMap, local) ==
    (IF local \in DOMAIN adjacencyMap THEN adjacencyMap[local] ELSE {})
        \cup {n \in DOMAIN adjacencyMap : local \in adjacencyMap[n]}

\* adjacencyMap[string(s.nodeID)]
OurDescendants(adjacencyMap, local) ==
    IF local \in DOMAIN adjacencyMap THEN adjacencyMap[local] ELSE {}

TransitiveTargetsUnfiltered(adjacencyMap, local, descendant) ==
    IF descendant \in DOMAIN adjacencyMap THEN adjacencyMap[descendant] ELSE {}

TransitiveTargetsNegated(adjacencyMap, local, descendant) ==
    LET descTargets ==
            IF descendant \in DOMAIN adjacencyMap
            THEN adjacencyMap[descendant] ELSE {}
    IN  {t \in descTargets :
            t \in OurDescendants(adjacencyMap, local) /\ t # local}

\* The targets of a descendant whose prefixes are routed through it: those
\* that are neither direct descendants of the local node nor the local node.
TransitiveTargets(adjacencyMap, local, descendant) ==
    LET descTargets ==
            IF descendant \in DOMAIN adjacencyMap
            THEN adjacencyMap[descendant] ELSE {}
    IN  {t \in descTargets :
            t \notin OurDescendants(adjacencyMap, local) /\ t # local}

\* peer.AllowedIPs for one direct descendant: its own valid prefixes, then the
\* valid prefixes of its transitive targets.  The list is kept as a set: the
\* prefixes of distinct nodes are distinct, and the order is that of Go's map
\* iteration.
AllowedIPsOwnOnly(adjacencyMap, local, descendant) == ValidPrefixes(descendant)

AllowedIPs(adjacencyMap, local, descendant) ==
    ValidPrefixes(descendant)
        \cup UNION {ValidPrefixes(t) :
                       t \in TransitiveTargets(adjacencyMap, local, descendant)}

\* The peers walkMeshDescendants puts when no PutPeer fails: one per direct
\* descendant.
WalkPeers(adjacencyMap, local) ==
    [d \in OurDescendants(adjacencyMap, local) |->
        AllowedIPs(adjacencyMap, local, d)]

\* wg.PutPeer for each peer of a set: the driver holds one peer per id and
\* takes the new allowed IPs.
PutPeers(held, peers, ids) ==
    [id \in DOMAIN held \cup ids |-> IF id \in ids THEN peers[id] ELSE held[id]]

\* ConfigureWireguard: the interface is created, brought up and configured.
ConfigureWireguard ==
    /\ wg' = "up"
    /\ refreshRes' = NoRefresh
    /\ UNCHANGED <<meshVars, policyVars, nodeID, wgPeers, joinVars, runVars>>

\* RefreshWireguardPeers.  Nothing happens before the interface exists.  The
\* graph build may fail, which is returned.  walkMeshDescendants puts the
\* peers in the order of Go's map iteration and stops at the first PutPeer
\* that fails: put is the set of peers put before that; the failure is logged
\* (walkErr) and nil is returned.
RefreshWireguardPeers(buildFails, put) ==
    LET adjacencyMap == BuildAdjacencyMap
        peers == WalkPeers(adjacencyMap, nodeID)
        issued == [id \in put |-> peers[id]]
    IN  /\ put \subseteq DOMAIN peers
        /\ IF wg = "nil"
           THEN /\ ~buildFails
                /\ put = {}
                /\ refreshRes' = [NoRefresh EXCEPT !.called = TRUE]
                /\ UNCHANGED wgPeers
           ELSE IF buildFails
           THEN /\ put = {}
                /\ refreshRes' = [NoRefresh EXCEPT !.called = TRUE, !.err = TRUE]
                /\ UNCHANGED wgPeers
           ELSE /\ wgPeers' = PutPeers(wgPeers, peers, put)
                /\ refreshRes' = [called |-> TRUE, err |-> FALSE,
                                  walkErr |-> put # DOMAIN peers,
                                  peers |-> issued]
        /\ UNCHANGED <<meshVars, policyVars, nodeID, wg, joinVars, runVars>>

InitReconcile ==
    /\ meshNodes = NodeIDs
    /\ leases = NodeIDs \ NoLease
    /\ edges = {}
    /\ acls = {}
    /\ routes = {}
    /\ filterRes = NoCall
    /\ againRes = NoCall
    /\ nodeID = "A"
    /\ wg = "nil"
    /\ wgPeers = EmptyMap
    /\ refreshRes = NoRefresh
    /\ NoJoin
    /\ Quiet

NextReconcile ==
    \/ ConfigureWireguard
    \/ \E buildFails \in BOOLEAN, put \in SUBSET NodeIDs :
           RefreshWireguardPeers(buildFails, put)
    \/ \E from, to \in NodeIDs : PutEdge(from, to, MaxEdges)
    \/ \E from, to \in NodeIDs : RemoveEdge(from, to)

SpecReconcile == InitReconcile /\ [][NextReconcile]_vars

\* ------------------------------------- policy and reconciler on one node

\* The ACLs of the scenarios: the DENY towards "C" and an ACCEPT of everything
\* ranked after it.
DenyToC == ACL("acl-0", 0, "DENY", {"*"}, {"C"}, {}, {})

AcceptAll ==
    ACL("acl-1", 1, "ACCEPT", {"*"}, {"*"}, {WildcardCIDR}, {WildcardCIDR})

ScenarioACLs == {DenyToC, AcceptAll}

\* A node of a three-node mesh on which an admin changes the ACLs and the
\* graph while the node filters the graph for itself and reconciles its peers.
InitPeers ==
    /\ meshNodes = PolicyNodeIDs
    /\ leases = PolicyNodeIDs
    /\ edges = {}
    /\ acls = {}
    /\ routes = {}
    /\ filterRes = NoCall
    /\ againRes = NoCall
    /\ nodeID \in PolicyNodeIDs
    /\ wg = "nil"
    /\ wgPeers = EmptyMap
    /\ refreshRes = NoRefresh
    /\ NoJoin
    /\ Quiet

NextPeers ==
    \/ \E acl \in ScenarioACLs : PutNetworkACL(acl, "none")
    \/ \E i \in DOMAIN ACLNames : DeleteNetworkACL(ACLNames[i])
    \/ \E from, to \in PolicyNodeIDs : PutEdge(from, to, MaxFilterEdges)
    \/ \E from, to \in PolicyNodeIDs : RemoveEdge(from, to)
    \/ CallFilterGraph(nodeID, "none")
    \/ ReturnFilterGraph
    \/ ConfigureWireguard
    \/ \E buildFails \in BOOLEAN, put \in SUBSET NodeIDs :
           RefreshWireguardPeers(buildFails, put)

SpecPeers == InitPeers /\ [][NextPeers]_vars


\* ------------------------------------------ properties of the policy filter

\* The nodes that appear in an adjacency map: its row keys and edge targets.
Appearing(map) == DOMAIN map \cup UNION {map[n] : n \in DOMAIN map}

\* The action the filter is to judge an advertised CIDR by: from the observer,
\* sourced at its private address of the CIDR's family.
ObserverAction(observer, dst, cidr) ==
    [SrcNode |-> observer,
     SrcCidr |-> IF cidr.fam = 4 THEN PrivateIpv4(observer) ELSE PrivateIpv6(observer),
     DstNode |-> dst,
     DstCidr |-> cidr]

\* The destination CIDRs of all the routes a node advertises.
AdvertisedCidrs(id) ==
    UNION {{r.destination_cidrs[i] : i \in 1..Len(r.destination_cidrs)} :
              r \in {q \in routes : q.node = id}}

RejectedCidrs(observer, id) ==
    {c \in AdvertisedCidrs(id) :
        ~Accept(Expand(acls), ObserverAction(observer, id, c))}

Permitted(observer, id) ==
    /\ AllowNodesToCommunicate(Expand(acls), MeshNode(observer), MeshNode(id))
    /\ RejectedCidrs(observer, id) = {}

Succeeded(res) == res.called /\ ~res.err

\* The nodes reachable from a node along the edges, itself included.
RECURSIVE ReachableFrom(_, _)
ReachableFrom(seen, adj) ==
    LET next == seen \cup UNION {adj[n] : n \in seen \cap DOMAIN adj}
    IN  IF next = seen THEN seen ELSE ReachableFrom(next, adj)

\* C1: after a successful FilterGraph under a non-empty ACL list, every node
\* other than the observer that appears in the result, as a row key or as an
\* edge target of any row, is allowed to communicate with the observer and has
\* every advertised destination CIDR accepted.
C1_ResultNodesPermitted ==
    (Succeeded(filterRes) /\ acls # {}) =>
        \A n \in Appearing(filterRes.map) \ {filterRes.observer} :
            Permitted(filterRes.observer, n)

\* A successful call whose result keeps an edge to a node other than the
\* observer while another node of the graph, the target of an edge too, was
\* filtered out.
C1_Witness ==
    /\ Succeeded(filterRes)
    /\ acls # {}
    /\ \E n \in DOMAIN filterRes.map : filterRes.map[n] \ {filterRes.observer} # {}
    /\ \E e \in edges : e[2] \notin Appearing(filterRes.map)

\* C2: with no NetworkACL stored, FilterGraph returns the empty adjacency map
\* and no error, whatever the graph, for every observer the resolver resolves
\* (the reads of the observer and of the ACL list succeeding).
C2_EmptyACLsEmptyMap ==
    (filterRes.called /\ acls = {} /\ CanResolve(filterRes.observer)
        /\ filterRes.fault \notin {"get", "acls"}) =>
        (~filterRes.err /\ filterRes.map = EmptyMap)

\* A call with no ACL stored on a graph in which the observer has an edge.
C2_Witness ==
    /\ filterRes.called
    /\ acls = {}
    /\ ~filterRes.err
    /\ \E e \in edges : e[1] = filterRes.observer

\* C3 as stated: every successful FilterGraph result has a row for the
\* observer, the empty ACL set included.
C3_ObserverRowAlways ==
    Succeeded(filterRes) => filterRes.observer \in DOMAIN filterRes.map

\* C3 (amended): every successful FilterGraph result under a non-empty ACL set
\* has a row for the observer, even when that row is empty.
C3_ObserverRowUnderACLs ==
    (Succeeded(filterRes) /\ acls # {}) =>
        filterRes.observer \in DOMAIN filterRes.map

\* The ACLs deny everything: the observer's row is there, and empty, although
\* the observer has an edge in the graph.
C3_Witness ==
    /\ Succeeded(filterRes)
    /\ acls # {}
    /\ DOMAIN filterRes.map = {filterRes.observer}
    /\ filterRes.map[filterRes.observer] = {}
    /\ \E e \in edges : e[1] = filterRes.observer

\* C4: FilterGraph is idempotent: run on the graph it returned, with the same
\* ACLs, routes and observer, it returns the same adjacency map.
C4_Idempotent ==
    againRes.called => (~againRes.err /\ againRes.map = filterRes.map)

\* The second call ran on a result that had lost a node and kept an edge.
C4_Witness ==
    /\ againRes.called
    /\ ~againRes.err
    /\ meshNodes \ DOMAIN filterRes.map # {}
    /\ \E n \in DOMAIN filterRes.map : filterRes.map[n] # {}

AcceptsEverything(acl) ==
    /\ acl.action = "ACCEPT"
    /\ acl.source_nodes = {} \/ "*" \in acl.source_nodes
    /\ acl.destination_nodes = {} \/ "*" \in acl.destination_nodes
    /\ acl.source_cidrs = {} \/ WildcardCIDR \in acl.source_cidrs
    /\ acl.destination_cidrs = {} \/ WildcardCIDR \in acl.destination_cidrs

AllowAllOnly == \E a \in acls : acls = {a} /\ AcceptsEverything(a)

\* C5 as stated: under one ACL that accepts everything the result is the graph
\* restricted to the nodes reachable from the observer: their rows unchanged,
\* no other node.
C5_ReachableComponentOnly ==
    (Succeeded(filterRes) /\ AllowAllOnly) =>
        LET reach == ReachableFrom({filterRes.observer}, BuildAdjacencyMap)
        IN  /\ DOMAIN filterRes.map = reach
            /\ \A n \in reach : filterRes.map[n] = BuildAdjacencyMap[n]

\* C5 (amended): under one ACL that accepts everything a successful
\* FilterGraph returns the whole adjacency map unchanged: the row and the
\* edges of every node of the graph, reachable from the observer or not.
C5_AllowAllKeepsWholeGraph ==
    (Succeeded(filterRes) /\ AllowAllOnly) => filterRes.map = BuildAdjacencyMap

\* Under allow-all the result holds a node the observer cannot reach, and an
\* edge into the observer.
C5_Witness ==
    /\ Succeeded(filterRes)
    /\ AllowAllOnly
    /\ DOMAIN filterRes.map
          \ ReachableFrom({filterRes.observer}, BuildAdjacencyMap) # {}
    /\ \E n \in DOMAIN filterRes.map : filterRes.observer \in filterRes.map[n]

\* C6: a node (other than the observer) one of whose advertised destination
\* CIDRs is rejected for the action from the observer has no row in a
\* successful FilterGraph result and is the target of no edge in it.
C6_RejectedRouteDropsNode ==
    (Succeeded(filterRes) /\ acls # {}) =>
        \A d \in meshNodes \ {filterRes.observer} :
            RejectedCidrs(filterRes.observer, d) # {}
                => d \notin Appearing(filterRes.map)

\* A node the observer may communicate with, with one advertised CIDR accepted
\* and another rejected, and an edge from the observer, is gone from the result.
C6_Witness ==
    /\ Succeeded(filterRes)
    /\ \E d \in meshNodes \ {filterRes.observer} :
           /\ AllowNodesToCommunicate(Expand(acls), MeshNode(filterRes.observer),
                                      MeshNode(d))
           /\ RejectedCidrs(filterRes.observer, d) # {}
           /\ AdvertisedCidrs(d) \ RejectedCidrs(filterRes.observer, d) # {}
           /\ <<filterRes.observer, d>> \in edges
           /\ d \notin Appearing(filterRes.map)


\* ---------------------------------------- properties of the peer reconciler

\* The last call of RefreshWireguardPeers ran on a configured interface and
\* met no failure.
Reconciled ==
    refreshRes.called /\ ~refreshRes.err /\ ~refreshRes.walkErr /\ wg = "up"

\* The edge targets of a node in an adjacency map.
EdgeTargets(adj, n) == IF n \in DOMAIN adj THEN adj[n] ELSE {}

\* Every prefix in the allowed IPs of some peer of a set of peers.
AllowedOn(peers) == UNION {peers[d] : d \in DOMAIN peers}

\* The IPv4 prefixes of each peer of a set of peers.
IPv4Only(peers) == [d \in DOMAIN peers |-> {p \in peers[d] : Is4(p)}]

\* The admission chain A -> B -> C.
Chain == {<<"A", "B">>, <<"B", "C">>}

\* C7 (as claimed): scenario S3. In the chain A -> B -> C with the single ACL
\* (priority 0, DENY, source *, destination C), the peers a reconcile on A
\* issues are exactly one peer B whose allowed IPs are B's own private
\* prefixes, and no prefix of C is in the allowed IPs of any peer on A.
C7_ScenarioS3 ==
    (edges = Chain /\ acls = {DenyToC} /\ routes = {} /\ nodeID = "A"
        /\ Reconciled)
    => /\ refreshRes.peers = ("B" :> ValidPrefixes("B"))
       /\ ValidPrefixes("C") \cap AllowedOn(wgPeers) = {}

C9_TransitivePrefixesRouted ==
    refreshRes.called =>
        LET adj == BuildAdjacencyMap
            direct == EdgeTargets(adj, nodeID)
        IN  /\ Reconciled => DOMAIN refreshRes.peers = direct
            /\ DOMAIN refreshRes.peers \subseteq direct
            /\ \A d \in DOMAIN refreshRes.peers :
                   \A g \in EdgeTargets(adj, d) \ (direct \cup {nodeID}) :
                       /\ ValidPrefixes(g) \subseteq refreshRes.peers[d]
                       /\ ValidPrefixes(g) \subseteq wgPeers[d]

\* A reconcile has put the peer of a direct descendant that has an edge to a
\* node with a lease that is not a direct descendant, and an edge back to the
\* local node.
C9_Witness ==
    /\ Reconciled
    /\ \E d \in DOMAIN refreshRes.peers :
           LET adj == BuildAdjacencyMap
               direct == EdgeTargets(adj, nodeID)
           IN  /\ \E g \in EdgeTargets(adj, d) \ (direct \cup {nodeID}) :
                      IsValid(PrivateIpv4(g))
               /\ nodeID \in EdgeTargets(adj, d)

\* The nodes other than l reached from l over at most two edges.
WithinTwoEdges(adj, l) ==
    (EdgeTargets(adj, l)
        \cup UNION {EdgeTargets(adj, d) : d \in EdgeTargets(adj, l)}) \ {l}

\* C10 (as claimed): after a successful reconcile on l, every node reachable
\* from l at any depth has its valid private prefixes in the allowed IPs of
\* some peer configured on l.
C10_ReachableAtAnyDepth ==
    Reconciled =>
        \A n \in ReachableFrom({nodeID}, BuildAdjacencyMap) \ {nodeID} :
            ValidPrefixes(n) \subseteq AllowedOn(wgPeers)

\* C10 (amended): after a successful reconcile on l, every node reached from
\* l over at most two edges has its valid private prefixes in the allowed IPs
\* of a peer that reconcile issued, and no other node has: a node reached
\* only over three or more edges is in the allowed IPs of no peer it issued.
C10_ReachableWithinTwoEdges ==
    Reconciled =>
        LET near == WithinTwoEdges(BuildAdjacencyMap, nodeID)
        IN  /\ \A n \in near :
                   /\ ValidPrefixes(n) \subseteq AllowedOn(refreshRes.peers)
                   /\ ValidPrefixes(n) \subseteq AllowedOn(wgPeers)
            /\ \A n \in NodeIDs \ near :
                   ValidPrefixes(n) \cap AllowedOn(refreshRes.peers) = {}

\* A successful reconcile on a graph with a node two edges away and a node
\* three edges away.
C10_Witness ==
    /\ Reconciled
    /\ LET adj == BuildAdjacencyMap
           near == WithinTwoEdges(adj, nodeID)
       IN  /\ near \ EdgeTargets(adj, nodeID) # {}
           /\ ReachableFrom({nodeID}, adj) \ (near \cup {nodeID}) # {}

\* The number of edges of a shortest path to a node from the nodes of seen,
\* which are k edges away from the start; -1 when there is no path.
RECURSIVE DistFrom(_, _, _, _)
DistFrom(adj, seen, to, k) ==
    IF to \in seen THEN k
    ELSE LET next == seen \cup UNION {EdgeTargets(adj, n) : n \in seen}
         IN  IF next = seen THEN -1 ELSE DistFrom(adj, next, to, k + 1)

Dist(adj, from, to) == DistFrom(adj, {from}, to, 0)

\* The nodes reached through the direct descendant d for which no shorter
\* path from l exists: a shortest path from l to them starts with the edge to d.
ReachedThrough(adj, l, d) ==
    {n \in DOMAIN adj \ {l, d} :
        /\ Dist(adj, d, n) > 0
        /\ Dist(adj, l, n) = 1 + Dist(adj, d, n)}

C12_StalePeersRemoved ==
    Reconciled => DOMAIN wgPeers \subseteq EdgeTargets(BuildAdjacencyMap, nodeID)

\* ------------------------------------------------- properties of the Join

\* The Join calls that have returned and whose callers do not have the
\* result yet.
Returned(c) == joinCalls[c].pc = "done"
ReturnedOK(c) == Returned(c) /\ joinCalls[c].code = "OK"

\* The step in which call c receives its request and runs up to the end of
\* the validation.
Received(c) == joinCalls[c].pc = "idle" /\ joinCalls'[c].pc # "idle"

\* A request the validation rejects: no id, a public key that does not
\* parse, or an endpoint that is set and does not parse.
Malformed(req) ==
    \/ req.Id = ""
    \/ req.PublicKey \notin KeyStrings
    \/ req.Endpoint # "" /\ req.Endpoint \notin EndpointStrings

\* C13: a Join that a server receives while it is not the leader returns
\* FAILED_PRECONDITION and no response, whatever its request, and no node
\* record, lease, ASN or raft server is created or changed by it.
C13_FollowerRefuses ==
    [][\A c \in Calls :
        Received(c) /\ ~isLeader =>
            /\ Returned(c)'
            /\ joinCalls'[c].code = "FailedPrecondition"
            /\ joinCalls'[c].resp = NoResponse
            /\ tableVars' = tableVars
            /\ ulaPrefix' = ulaPrefix]_vars

\* C13 witness: a follower that holds node records has refused a malformed
\* request with FAILED_PRECONDITION.
C13_Witness ==
    /\ ~isLeader
    /\ DOMAIN peersTable # {}
    /\ \E c \in Calls :
          /\ Returned(c)
          /\ joinCalls[c].code = "FailedPrecondition"
          /\ Malformed(joinCalls[c].req)

\* C14 as stated: a malformed Join received by the leader returns
\* INVALID_ARGUMENT and changes no table.
C14_LeaderRejectsMalformed ==
    [][\A c \in Calls :
        Received(c) /\ isLeader /\ Malformed(joinCalls'[c].req) =>
            /\ Returned(c)'
            /\ joinCalls'[c].code = "InvalidArgument"
            /\ joinCalls'[c].resp = NoResponse
            /\ tableVars' = tableVars]_vars

\* C14: a malformed Join received by the leader changes no table and returns
\* no response; it returns INVALID_ARGUMENT when the server holds the ULA
\* prefix or loads it, and INTERNAL when the loading of the prefix fails.
C14_LeaderRejectsMalformedOncePrefixLoaded ==
    [][\A c \in Calls :
        Received(c) /\ isLeader /\ Malformed(joinCalls'[c].req) =>
            /\ Returned(c)'
            /\ joinCalls'[c].code = IF IsValid(ulaPrefix') THEN "InvalidArgument"
                                    ELSE "Internal"
            /\ ~IsValid(ulaPrefix') => ~IsValid(ulaPrefix)
            /\ joinCalls'[c].resp = NoResponse
            /\ tableVars' = tableVars]_vars

\* C14 witness: the leader, holding node records, has rejected a request
\* whose public key does not parse with INVALID_ARGUMENT.
C14_Witness ==
    /\ isLeader
    /\ DOMAIN peersTable # {}
    /\ \E c \in Calls :
          /\ Returned(c)
          /\ joinCalls[c].code = "InvalidArgument"
          /\ joinCalls[c].req.Id # ""
          /\ joinCalls[c].req.PublicKey \notin KeyStrings

\* The last Join of node id, when it succeeded and its caller has its result.
Joined(id) == id \in JoinIDs /\ joinLog[id] # <<>>
LastJoin(id) == joinLog[id][1]

\* The persisted record of a node without its lease: the row and the ASN.
Record(node) == [row |-> NodeRow(node), ASN |-> node.ASN]

\* C15: scenario S4.  When a Join of a node follows a Join of the same node,
\* both successful and both asking for an IPv4 address, the registry holds the
\* node with the public key of the second request, the node's lease is the
\* one the first Join gave, and the second response carries the AddressIpv4 of
\* the first.
C15_ScenarioS4 ==
    \A c \in Calls :
        LET req == joinCalls[c].req
            id == req.Id
        IN  ReturnedOK(c) /\ Joined(id)
                /\ req.AssignIpv4 /\ LastJoin(id).req.AssignIpv4 =>
              /\ NodeExists(id)
              /\ KeyString(peersTable[id].PublicKey) = req.PublicKey
              /\ id \in DOMAIN leaseTable
              /\ leaseTable[id] = LastJoin(id).AddressIpv4
              /\ joinCalls[c].resp.AddressIpv4 = LastJoin(id).AddressIpv4
              /\ joinCalls[c].resp.AddressIpv4 \in IPv4Hosts

\* C15 witness: "X" has joined with K1 and then with K2, after "Y" joined,
\* and the second Join of "X" has returned.
C15_Witness ==
    \E c \in Calls :
        /\ ReturnedOK(c)
        /\ joinCalls[c].req = JoinRequest("X", "K2", "", 9443, TRUE, FALSE, FALSE)
        /\ Joined("X")
        /\ LastJoin("X").req = JoinRequest("X", "K1", "", 9443, TRUE, FALSE, FALSE)
        /\ "Y" \in DOMAIN leaseTable

\* C16: when a Join follows a successful Join of the same node with the same
\* request, the persisted record of the node (public key, endpoint, ports,
\* allowed IPs, zones, IPv6 network and ASN) is the one the first Join left.
C16_JoinIdempotent ==
    \A c \in Calls :
        LET req == joinCalls[c].req
            id == req.Id
        IN  ReturnedOK(c) /\ Joined(id) /\ LastJoin(id).req = req =>
              /\ NodeExists(id)
              /\ Record(NodeOf(id)) = Record(LastJoin(id).node)

\* C16 witness: the same request, one that asks for an ASN and carries an
\* endpoint, has been served twice in a row.
C16_Witness ==
    \E c \in Calls :
        LET req == joinCalls[c].req
        IN  /\ ReturnedOK(c)
            /\ Joined(req.Id)
            /\ LastJoin(req.Id).req = req
            /\ req.AssignAsn
            /\ req.Endpoint # ""
            /\ NodeOf(req.Id).ASN # 0

\* The step in which the Create of call c writes a node record.
Created(c) ==
    /\ joinCalls[c].pc = "create"
    /\ joinCalls'[c].pc \notin {"create", "done"}

\* C17: however the Joins on the leader interleave, a Create never writes a
\* second record for an id that has one (of two Joins that both found the id
\* new, one creates and the other fails), and the leased IPv4 hosts are
\* pairwise distinct hosts of the cluster's IPv4 prefix.
C17_OneRecordDistinctHosts ==
    /\ [](\A id \in DOMAIN leaseTable :
            /\ leaseTable[id] \in IPv4Hosts
            /\ \A other \in DOMAIN leaseTable \ {id} :
                  leaseTable[other] # leaseTable[id])
    /\ [][\A c \in Calls :
            Created(c) =>
                /\ ~NodeExists(joinCalls[c].req.Id)
                /\ DOMAIN peersTable' = DOMAIN peersTable \cup {joinCalls[c].req.Id}
                /\ \A id \in DOMAIN peersTable : peersTable'[id] = peersTable[id]]_vars

\* C17 witness: two Joins of the same id are being served; one found the id
\* new and is still to create, the record has been written since and the
\* other Join holds the node's lease; another node holds a lease too.
C17_Witness ==
    \E c1, c2 \in Calls :
        /\ c1 # c2
        /\ joinCalls[c1].req.Id = joinCalls[c2].req.Id
        /\ joinCalls[c1].pc = "create"
        /\ joinCalls[c2].pc = "raft"
        /\ joinCalls[c2].lease # 0
        /\ NodeExists(joinCalls[c1].req.Id)
        /\ \E other \in DOMAIN leaseTable : other # joinCalls[c1].req.Id

\* C18: every IPv4 lease belongs to a node id that has a node record, also
\* after Joins that failed part-way.
C18_LeasesHaveNodes ==
    /\ DOMAIN leaseTable \subseteq DOMAIN peersTable
    /\ leases \subseteq meshNodes

\* C18 witness: a Join has failed after it acquired its lease (the addition
\* of the non-voter or the listing of the peers failed), and the lease is held.
C18_Witness ==
    \E c \in Calls :
        /\ Returned(c)
        /\ joinCalls[c].code = "Internal"
        /\ joinCalls[c].lease # 0
        /\ joinCalls[c].req.Id \in DOMAIN leaseTable
        /\ joinCalls[c].req.Id \notin DOMAIN raftServers

\* C19: the peer list of a successful Join has one entry for every node
\* registered when the Join returns but the joiner, each with that node's
\* stored values, and none for the joiner.
C19_PeersAreAllOthers ==
    \A c \in Calls :
        LET id == joinCalls[c].req.Id
            peers == joinCalls[c].resp.Peers
        IN  ReturnedOK(c) =>
              /\ NodeExists(id)
              /\ id \notin DOMAIN peers
              /\ DOMAIN peers = DOMAIN peersTable \ {id}
              /\ \A k \in DOMAIN peers :
                    /\ peers[k].PublicKey = KeyString(peersTable[k].PublicKey)
                    /\ peers[k].AddressIpv6 = peersTable[k].NetworkIPv6
                    /\ peers[k].AllowedIps = peersTable[k].AllowedIPs

\* C19 witness: a Join has returned a response to a joiner while another
\* node is registered, and the response lists that node.
C19_Witness ==
    \E c \in Calls :
        /\ ReturnedOK(c)
        /\ joinCalls[c].req.Id = "Y"
        /\ DOMAIN peersTable = {"X", "Y"}
        /\ DOMAIN joinCalls[c].resp.Peers = {"X"}

\* The raft server a Join has to have added: the joiner at its leased IPv4
\* host when the request asks for IPv4 and does not prefer IPv6 for raft, at
\* the host of its IPv6 network otherwise, with the raft port of the request,
\* which is the node's.
ExpectedServer(c) ==
    LET req == joinCalls[c].req
        resp == joinCalls[c].resp
    IN  IF req.AssignIpv4 /\ ~req.PreferRaftIpv6
        THEN [family |-> 4, host |-> resp.AddressIpv4, port |-> req.RaftPort]
        ELSE [family |-> 6, host |-> resp.NetworkIpv6, port |-> req.RaftPort]

\* C20: when a Join returns a response the joiner is a raft server at the
\* expected address and port, and its node record has that port; a Join whose
\* addition of the non-voter fails returns INTERNAL and no response.
C20_NonVoterAddedBeforeResponse ==
    /\ [](\A c \in Calls :
            LET id == joinCalls[c].req.Id
            IN  ReturnedOK(c) =>
                  /\ id \in DOMAIN raftServers
                  /\ raftServers[id] = ExpectedServer(c)
                  /\ IF raftServers[id].family = 4
                     THEN raftServers[id].host \in IPv4Hosts
                     ELSE raftServers[id].host \in IPv6Hosts
                  /\ peersTable[id].RaftPort = raftServers[id].port)
    /\ [][\A c \in Calls :
            joinCalls[c].pc = "raft" =>
                \/ joinCalls'[c].pc = "raft"
                \/ /\ joinCalls'[c].pc = "list"
                   /\ joinCalls[c].req.Id \in DOMAIN raftServers'
                \/ /\ Returned(c)'
                   /\ joinCalls'[c].code = "Internal"
                   /\ joinCalls'[c].resp = NoResponse
                   /\ raftServers' = raftServers]_vars

\* C20 witness: a Join that asked for IPv4 and did not prefer IPv6 has
\* returned its response, its joiner being a raft server at the leased host,
\* after a Join of the same node that was added at its IPv6 host.
C20_Witness ==
    \E c \in Calls :
        LET req == joinCalls[c].req
        IN  /\ ReturnedOK(c)
            /\ req.AssignIpv4 /\ ~req.PreferRaftIpv6
            /\ raftServers[req.Id].family = 4
            /\ raftServers[req.Id].host = leaseTable[req.Id]
            /\ Joined(req.Id)
            /\ ~LastJoin(req.Id).req.AssignIpv4

\* ------------------------------------------- the join loop of a joining node

\* Everything but the state of store.join.
nonLoopVars ==
    <<meshNodes, leases, edges, policyVars, wireguardVars, joinVars,
      putRes, meshStore, wgmux, wgCalls, wgDev>>

LoopAt(pc) == joinLoop.pc = pc

TriesLeftOneMore(tries, max) == tries <= max + 1

\* for tries <= s.opts.MaxJoinRetries
TriesLeft(tries, max) == tries <= max

\* return ctx.Err() / return fmt.Errorf(...) / the loop left with a response
LoopReturn(ret) == [joinLoop EXCEPT !.pc = "done", !.ret = ret]

\* What follows the failure of a dial or of a Join RPC: the context's error
\* is returned when the context is cancelled, else tries is incremented and
\* the loop sleeps.
AfterFailureRetriesAlways(loop) ==
    [loop EXCEPT !.pc = "sleep", !.tries = @ + 1]

AfterFailure(loop) ==
    IF loop.ctxDone THEN [loop EXCEPT !.pc = "done", !.ret = "ctx"]
    ELSE [loop EXCEPT !.pc = "sleep", !.tries = @ + 1]

\* store.join is called with a context that is live; the local key is
\* loaded and the loop is entered with tries = 0 and resp = nil.
JoinLoopEnter(max) ==
    /\ LoopAt("idle")
    /\ joinLoop' = [NoLoop EXCEPT !.pc = "loop", !.max = max]
    /\ UNCHANGED nonLoopVars

\* The loop condition: another attempt, or the loop is left.
JoinLoopTest ==
    /\ LoopAt("loop")
    /\ joinLoop' = [joinLoop EXCEPT
                      !.pc = IF TriesLeft(joinLoop.tries, joinLoop.max)
                             THEN "dial" ELSE "after"]
    /\ UNCHANGED nonLoopVars

\* grpc.DialContext: it returns at once, with a connection or an error,
\* whether or not the context is cancelled.
JoinLoopDial(fails) ==
    /\ LoopAt("dial")
    /\ LET dialled == [joinLoop EXCEPT !.attempts = @ + 1]
       IN  joinLoop' = IF fails THEN AfterFailure(dialled)
                       ELSE [dialled EXCEPT !.pc = "rpc"]
    /\ UNCHANGED nonLoopVars

\* client.Join: it fails when the context is cancelled; a response ends
\* the loop.
JoinLoopRPC(fails) ==
    /\ LoopAt("rpc")
    /\ joinLoop.ctxDone => fails
    /\ LET called == [joinLoop EXCEPT !.rpcs = @ + 1]
       IN  joinLoop' = IF fails THEN AfterFailure(called)
                       ELSE [called EXCEPT !.pc = "after", !.resp = TRUE]
    /\ UNCHANGED nonLoopVars

\* time.Sleep(time.Second); continue
JoinLoopSleep ==
    /\ LoopAt("sleep")
    /\ joinLoop' = [joinLoop EXCEPT !.pc = "loop"]
    /\ UNCHANGED nonLoopVars

\* After the loop: the function's own err is nil here (the loop's err is a
\* variable of the loop body), so a nil resp is what reports the failure.
JoinLoopAfter ==
    /\ LoopAt("after")
    /\ joinLoop' = LoopReturn(IF joinLoop.resp THEN "response" ELSE "failed")
    /\ UNCHANGED nonLoopVars

\* The context is cancelled while the loop runs.
JoinLoopCancel ==
    /\ joinLoop.pc \in {"loop", "dial", "rpc", "sleep"}
    /\ ~joinLoop.ctxDone
    /\ joinLoop' = [joinLoop EXCEPT !.ctxDone = TRUE]
    /\ UNCHANGED nonLoopVars

\* The caller has what store.join returned.
JoinLoopReturn ==
    /\ LoopAt("done")
    /\ joinLoop' = NoLoop
    /\ UNCHANGED nonLoopVars

InitJoinLoop ==
    /\ meshNodes = {}
    /\ leases = {}
    /\ edges = {}
    /\ acls = {}
    /\ routes = {}
    /\ filterRes = NoCall
    /\ againRes = NoCall
    /\ nodeID = "A"
    /\ wg = "nil"
    /\ wgPeers = EmptyMap
    /\ refreshRes = NoRefresh
    /\ NoJoin
    /\ Quiet

NextJoinLoop ==
    \/ \E max \in 0..MaxJoinRetries : JoinLoopEnter(max)
    \/ JoinLoopTest
    \/ \E fails \in BOOLEAN : JoinLoopDial(fails)
    \/ \E fails \in BOOLEAN : JoinLoopRPC(fails)
    \/ JoinLoopSleep
    \/ JoinLoopAfter
    \/ JoinLoopCancel
    \/ JoinLoopReturn

SpecJoinLoop == InitJoinLoop /\ [][NextJoinLoop]_vars

\* ------------------------------------------- properties of the join loop

\* The step of a dial or a Join RPC that fails.
AttemptFails ==
    /\ joinLoop.pc \in {"dial", "rpc"}
    /\ joinLoop'.pc \in {"sleep", "done"}

\* What holds of the loop whenever the context is cancelled or not: at most
\* max + 1 attempts, one Join RPC at most per attempt, a retry after each
\* failure under a live context while tries are left, and no attempt after a
\* response.
LoopBounded ==
    /\ [](/\ joinLoop.attempts <= joinLoop.max + 1
          /\ joinLoop.rpcs <= joinLoop.attempts
          /\ joinLoop.tries <= joinLoop.attempts
          /\ joinLoop.ret = "response" => joinLoop.resp
          /\ joinLoop.ret = "failed" =>
                ~joinLoop.resp /\ joinLoop.attempts = joinLoop.max + 1)
    /\ [][/\ AttemptFails /\ ~joinLoop'.ctxDone =>
                /\ joinLoop'.pc = "sleep"
                /\ joinLoop'.tries = joinLoop.tries + 1
          /\ LoopAt("loop") /\ joinLoop'.pc # "loop" =>
                joinLoop'.pc = IF joinLoop.tries <= joinLoop.max
                               THEN "dial" ELSE "after"
          /\ joinLoop.resp =>
                /\ joinLoop'.attempts = joinLoop.attempts \/ joinLoop' = NoLoop
                /\ joinLoop'.rpcs = joinLoop.rpcs \/ joinLoop' = NoLoop]_vars

\* C21 as stated: the loop is bounded as above and, once the context is
\* cancelled, makes no further attempt and returns the context's error.
C21_LoopStopsAtCancellation ==
    /\ LoopBounded
    /\ [](LoopAt("done") /\ joinLoop.ctxDone => joinLoop.ret = "ctx")
    /\ [][joinLoop.ctxDone =>
            joinLoop'.attempts = joinLoop.attempts \/ joinLoop' = NoLoop]_vars

\* C21: the loop is bounded as above; a cancelled context ends it with the
\* context's error at the failure of a dial or of a Join RPC, and a Join RPC
\* under a cancelled context fails.  (A context cancelled during the sleep is
\* only seen there: after the last sleep the loop ends with "join request
\* failed", after an earlier one it dials again.)
C21_LoopStopsAtFailureUnderCancellation ==
    /\ LoopBounded
    /\ [](LoopAt("done") /\ joinLoop.ret = "ctx" => joinLoop.ctxDone /\ ~joinLoop.resp)
    /\ [](LoopAt("done") /\ joinLoop.ctxDone => joinLoop.ret \in {"ctx", "failed"})
    /\ [][AttemptFails /\ joinLoop.ctxDone =>
            joinLoop'.pc = "done" /\ joinLoop'.ret = "ctx"]_vars
    /\ [][joinLoop.ctxDone =>
            \/ joinLoop'.attempts = joinLoop.attempts
            \/ joinLoop' = NoLoop
            \/ joinLoop'.attempts = joinLoop.attempts + 1 /\ LoopAt("dial")]_vars

\* C21 witness: a loop with retries has failed max times under a live
\* context, has seen its last Join RPC fail under a cancelled context, and
\* has returned the context's error.
C21_Witness ==
    /\ LoopAt("done")
    /\ joinLoop.max = MaxJoinRetries
    /\ joinLoop.ret = "ctx"
    /\ joinLoop.tries = joinLoop.max
    /\ joinLoop.attempts = joinLoop.max + 1
    /\ joinLoop.rpcs = joinLoop.attempts

\* ------------------------------------------------------- meshStore.Open

\* Everything but the state of the meshStore.
nonStoreVars ==
    <<meshNodes, leases, edges, policyVars, wireguardVars, joinVars,
      putRes, joinLoop, wgmux, wgCalls, wgDev>>

\* The prefixes of the keys that are written, and those whose writes lead
\* to a reconcile.
KeyPrefixes == {"peers/", "network-acls/", "routes/", "mesh-state/"}
WatchedPrefixes == {"peers/", "network-acls/", "routes/"}

\* handleErr: the subscription is cancelled, the plugins are closed and the
\* Raft node is stopped; s.open is left as it is.
HandleErr(store, cause) ==
    [store EXCEPT !.pc = "returned", !.ret = cause, !.raft = FALSE,
                  !.subscribed = FALSE]

\* return fmt.Errorf(...) with no call of handleErr
ReturnErr(store, cause) == [store EXCEPT !.pc = "returned", !.ret = cause]

\* Open up to "open for business": the plugin manager is created and the
\* Raft node is started; either may fail.  Then s.open is set.
OpenStart(fails) ==
    /\ meshStore.pc = "closed"
    /\ ~meshStore.open
    /\ meshStore' = IF fails THEN ReturnErr(meshStore, "start")
                    ELSE [meshStore EXCEPT !.pc = "key", !.raft = TRUE,
                                           !.open = TRUE]
    /\ UNCHANGED nonStoreVars

\* s.loadWireGuardKey
OpenLoadKey(fails) ==
    /\ meshStore.pc = "key"
    /\ meshStore' = IF fails THEN ReturnErr(meshStore, "load wireguard key")
                    ELSE [meshStore EXCEPT !.pc = "join"]
    /\ UNCHANGED nonStoreVars

\* The bootstrap, the join or the recovery of the WireGuard configuration.
OpenJoin(mode, fails) ==
    /\ meshStore.pc = "join"
    /\ meshStore' = IF ~fails THEN [meshStore EXCEPT !.pc = "subscribe"]
                    ELSE IF mode = "recover"
                    THEN ReturnErr(meshStore, "recover wireguard")
                    ELSE HandleErr(meshStore, mode)
    /\ UNCHANGED nonStoreVars

\* s.raft.Storage().Subscribe(context.Background(), "", s.onDBUpdate)
OpenSubscribe(fails) ==
    /\ meshStore.pc = "subscribe"
    /\ meshStore' = IF ~fails
                    THEN [meshStore EXCEPT !.pc = "returned", !.ret = "nil",
                                           !.subscribed = TRUE]
                    ELSE HandleErr(meshStore, "subscribe")
    /\ UNCHANGED nonStoreVars

\* Open is called on a store whose earlier Open has returned:
\* if s.open.Load() { return ErrOpen }; else Open starts over.  The field
\* again holds what this later call returned at once.
OpenAgain ==
    /\ meshStore.pc = "returned"
    /\ meshStore' = IF meshStore.open
                    THEN [meshStore EXCEPT !.again = "ErrOpen"]
                    ELSE [meshStore EXCEPT !.pc = "closed", !.ret = "",
                                           !.again = ""]
    /\ UNCHANGED nonStoreVars

FiresForWatchedOnly(store, prefix) ==
    store.subscribed /\ prefix \in WatchedPrefixes

\* The subscription is to the prefix "": once it is registered, the write
\* of any key fires the callback.
Fires(store, prefix) == store.subscribed

\* A write is committed to the storage of the running Raft node; the
\* subscription, when there is one, fires its callback with the key.
CommitWrite(prefix) ==
    /\ meshStore.raft
    /\ meshStore.writes < MaxWrites
    /\ meshStore' =
          [meshStore EXCEPT
              !.writes = @ + 1,
              !.pending = IF Fires(meshStore, prefix) THEN Append(@, prefix)
                          ELSE @,
              !.fired = IF Fires(meshStore, prefix) /\ prefix \in WatchedPrefixes
                        THEN @ + 1 ELSE @]
    /\ UNCHANGED nonStoreVars

\* s.onDBUpdate for the oldest pending callback: a key under a watched
\* prefix leads to one reconcile of the WireGuard peers.
OnDBUpdate ==
    /\ meshStore.pending # <<>>
    /\ meshStore' =
          [meshStore EXCEPT
              !.pending = Tail(@),
              !.reconciles = IF Head(meshStore.pending) \in WatchedPrefixes
                             THEN @ + 1 ELSE @]
    /\ UNCHANGED nonStoreVars

InitOpen ==
    /\ meshNodes = {}
    /\ leases = {}
    /\ edges = {}
    /\ acls = {}
    /\ routes = {}
    /\ filterRes = NoCall
    /\ againRes = NoCall
    /\ nodeID = "A"
    /\ wg = "nil"
    /\ wgPeers = EmptyMap
    /\ refreshRes = NoRefresh
    /\ NoJoin
    /\ Quiet

NextOpen ==
    \/ \E fails \in BOOLEAN : OpenStart(fails)
    \/ \E fails \in BOOLEAN : OpenLoadKey(fails)
    \/ \E mode \in {"bootstrap", "join", "recover"}, fails \in BOOLEAN :
           OpenJoin(mode, fails)
    \/ \E fails \in BOOLEAN : OpenSubscribe(fails)
    \/ OpenAgain
    \/ \E prefix \in KeyPrefixes : CommitWrite(prefix)
    \/ OnDBUpdate

\* The callbacks are dispatched as long as some are pending.
SpecOpen == InitOpen /\ [][NextOpen]_vars /\ WF_vars(OnDBUpdate)

\* --------------------------------------------- properties of meshStore.Open

\* The step in which a write is committed.
Committed == meshStore'.writes = meshStore.writes + 1

\* The callbacks pending for keys under the watched prefixes.
PendingWatched ==
    Len(SelectSeq(meshStore.pending, LAMBDA k : k \in WatchedPrefixes))

InvalidACLs ==
    { ACL("acl-0", 0, "LOG", {"*"}, {"*"}, {}, {}),
      ACL("acl-1", 1, "ACCEPT", {}, {}, {BadCIDR}, {WildcardCIDR}),
      ACL("acl-2", 0, "DENY", {"group:loop"}, {"A"}, {}, {}) }

PutFaults == {"none", "marshal", "put"}

\* GetNetworkACL and ListNetworkACLs: the stored ACL of a name (none when the
\* key is not found), and all stored ACLs.
GetNetworkACL(name) == {a \in acls : a.name = name}
ListNetworkACLs == acls

\* An admin puts valid and invalid ACLs and deletes ACLs, on a storage that
\* may fail, while the node filters the graph for itself.
NextACLs ==
    \/ \E acl \in ACLCatalogue \cup InvalidACLs, fault \in PutFaults :
           PutNetworkACL(acl, fault)
    \/ \E i \in DOMAIN ACLNames : DeleteNetworkACL(ACLNames[i])
    \/ \E from, to \in PolicyNodeIDs : PutEdge(from, to, 1)
    \/ \E from, to \in PolicyNodeIDs : RemoveEdge(from, to)
    \/ CallFilterGraph(nodeID, "none")
    \/ ReturnFilterGraph

SpecACLs == InitFilter /\ [][NextACLs]_vars

\* ----------------------------------------- properties of the stored ACLs

\* An ACL that is malformed: its action is unknown, one of its CIDRs is
\* neither a prefix nor the wildcard, or it refers to a group in a cycle.
MalformedACL(acl) ==
    \/ acl.action \notin {"ACCEPT", "DENY"}
    \/ \E cidr \in acl.source_cidrs \cup acl.destination_cidrs :
          cidr.fam \notin {4, 6} /\ cidr # WildcardCIDR
    \/ "group:loop" \in acl.source_nodes \cup acl.destination_nodes

\* C23: a PutNetworkACL that returns an error writes nothing; the error is
\* ErrInvalidACL exactly when the ACL is malformed; so no malformed ACL is
\* ever stored, GetNetworkACL and ListNetworkACLs return none, and FilterGraph
\* evaluates every stored ACL.
C23_InvalidACLNeverStored ==
    /\ [][putRes' # putRes /\ putRes'.err # "nil" => acls' = acls]_vars
    /\ [](putRes.err # "nil" =>
            (putRes.err = "ErrInvalidACL" <=> MalformedACL(putRes.acl)))
    /\ [](\A a \in ListNetworkACLs : ~MalformedACL(a))
    /\ [](\A i \in DOMAIN ACLNames :
            \A a \in GetNetworkACL(ACLNames[i]) : ~MalformedACL(a))
    /\ [](filterRes.called /\ ~filterRes.err /\ acls # {} =>
            Cardinality(Expand(acls)) = Cardinality(acls))

\* C23 witness: the put of an ACL with an unparseable CIDR has returned
\* ErrInvalidACL while a valid ACL of the same name is stored.
C23_Witness ==
    /\ putRes.err = "ErrInvalidACL"
    /\ BadCIDR \in putRes.acl.source_cidrs
    /\ \E a \in acls : a.name = putRes.acl.name

\* ------------------------------------- properties of FilterGraph's errors

\* The first of a node's advertised CIDRs that ends the CIDR loop, if one
\* does, is one that does not parse.
StopsAtUnparseable(list, thisNode, n) ==
    LET cidrs == DestinationCidrs(n)
    IN  \E i \in 1..Len(cidrs) :
          /\ cidrs[i].fam \notin {4, 6}
          /\ \A j \in 1..(i - 1) : Accept(list, RouteAction(thisNode, n, cidrs[j]))

\* A call FilterGraph makes has failed: the observer or a graph node could
\* not be resolved, the ACLs could not be listed, or, with ACLs stored, they
\* could not be expanded, the adjacency map could not be built, the routes of
\* a node allowed to communicate could not be listed, or one of its CIDRs
\* did not parse.
FilterFailure ==
    LET o == filterRes.observer
        f == filterRes.fault
        list == Expand(acls)
        others == meshNodes \ {o}
        allowed == {n \in others :
                      AllowNodesToCommunicate(list, MeshNode(o), MeshNode(n))}
    IN  \/ o \notin meshNodes
        \/ f \in {"get", "acls"}
        \/ /\ acls # {}
           /\ \/ f \in {"expand", "graph"}
              \/ f = "node" /\ others # {}
              \/ f = "routes" /\ allowed # {}
              \/ \E n \in allowed : StopsAtUnparseable(list, MeshNode(o), n)

\* C24: when a call FilterGraph makes fails, FilterGraph returns an error; an
\* error comes with no adjacency map; so a map is returned only by a call in
\* which nothing failed.
C24_FailureReturnsErrorAndNoMap ==
    filterRes.called =>
        /\ FilterFailure => filterRes.err
        /\ filterRes.err => filterRes.map = EmptyMap /\ FilterFailure

\* C24 witness: with ACLs stored and the observer resolved, a node allowed
\* to communicate advertises a CIDR that does not parse after one that was
\* accepted, and FilterGraph has returned the error.
C24_Witness ==
    /\ filterRes.called
    /\ filterRes.fault = "none"
    /\ filterRes.observer \in meshNodes
    /\ acls # {}
    /\ \E n \in meshNodes \ {filterRes.observer} :
         /\ Len(DestinationCidrs(n)) > 1
         /\ StopsAtUnparseable(Expand(acls), MeshNode(filterRes.observer), n)
         /\ AllowNodesToCommunicate(Expand(acls), MeshNode(filterRes.observer),
                                    MeshNode(n))
    /\ filterRes.err
    /\ filterRes.map = EmptyMap

\* ------------------------------------------- s.wgmux and the driver handle

nonWgVars ==
    <<meshNodes, leases, edges, policyVars, nodeID, refreshRes, joinVars,
      putRes, joinLoop, meshStore>>

\* The peers of the JoinResponse store.join puts on the driver.
ResponsePeers == [id \in {"B", "C"} |-> ValidPrefixes(id)]

\* What fails in one step of a call: nothing, or the one call the step makes
\* that can fail.
BuildFaults == {"none", "build", "map"}
NewFaults == {"none", "firewall", "new"}
RouteFaults == {"none", "other"}
FirewallFaults == {"none", "forward", "masquerade"}

WgAt(t, op, pc) == wgCalls[t].op = op /\ wgCalls[t].pc = pc

\* The call of thread t reads s.wg (kind "read") or calls the driver through
\* it (kind "call"): without s.wgmux the access is a bare one.
Touch(t, call, kind) ==
    [call EXCEPT !.bare = @ \/ wgmux # t,
                 !.bareCall = @ \/ (kind = "call" /\ wgmux # t)]

WgSet(t, call) ==
    /\ wgCalls' = [wgCalls EXCEPT ![t] = call]
    /\ UNCHANGED nonWgVars

LeaveLocked(t, call, ret) == [call EXCEPT !.ret = ret, !.pc = "returned"]

\* The call returns ret; a call that has locked s.wgmux unlocks it first
\* (defer s.wgmux.Unlock()).
Leave(t, call, ret) ==
    [call EXCEPT !.ret = ret, !.pc = IF wgmux = t THEN "unlock" ELSE "returned"]

\* A thread calls RefreshWireguardPeers, ConfigureWireguard, or, in
\* store.join, ConfigureWireguard followed by the PutPeers of the response.
WgCall(t, op) ==
    /\ wgCalls[t].pc = "idle"
    /\ WgSet(t, [IdleThread EXCEPT !.op = op,
                    !.pc = IF op = "refresh" THEN "check" ELSE "lock"])
    /\ UNCHANGED <<wg, wgPeers, wgmux, wgDev>>

RefreshCheckSkipsNil(t) ==
    /\ WgAt(t, "refresh", "check")
    /\ WgSet(t, [Touch(t, wgCalls[t], "read") EXCEPT !.pc = "lock"])
    /\ UNCHANGED <<wg, wgPeers, wgmux, wgDev>>

\* RefreshWireguardPeers: if s.wg == nil { return nil }.
RefreshCheck(t) ==
    /\ WgAt(t, "refresh", "check")
    /\ LET call == Touch(t, wgCalls[t], "read")
       IN  WgSet(t, IF wg = "nil" THEN Leave(t, call, "nil")
                    ELSE [call EXCEPT !.pc = "lock"])
    /\ UNCHANGED <<wg, wgPeers, wgmux, wgDev>>

UnlockedAlways(t) == TRUE

\* s.wgmux is free for thread t to lock.
Unlocked(t) == wgmux = 0

\* s.wgmux.Lock(): the thread waits until the mutex is free.
Lock(t) ==
    /\ wgCalls[t].pc = "lock"
    /\ Unlocked(t)
    /\ wgmux' = t
    /\ WgSet(t, [wgCalls[t] EXCEPT
                    !.pc = IF wgCalls[t].op = "refresh" THEN "build" ELSE "new"])
    /\ UNCHANGED <<wg, wgPeers, wgDev>>

RefreshReturnsWalkError(walkErr) == IF walkErr THEN "err" ELSE "nil"

\* What RefreshWireguardPeers returns after walkMeshDescendants: its error
\* is logged.
RefreshReturn(walkErr) == "nil"

\* meshgraph.New(s).Build and, in walkMeshDescendants, graph.AdjacencyMap:
\* a failed build is returned, a failed adjacency map is only logged.  With
\* no descendants nothing is put.
RefreshBuild(t, fault) ==
    /\ WgAt(t, "refresh", "build")
    /\ LET call == wgCalls[t]
           ourDescendants == DOMAIN WalkPeers(BuildAdjacencyMap, nodeID)
       IN  WgSet(t, IF fault = "build"
                    THEN Leave(t, [call EXCEPT !.buildErr = TRUE], "err")
                    ELSE IF fault = "map"
                    THEN Leave(t, [call EXCEPT !.walkErr = TRUE],
                               RefreshReturn(TRUE))
                    ELSE IF ourDescendants = {}
                    THEN Leave(t, call, "nil")
                    ELSE [call EXCEPT !.pc = "walk", !.todo = ourDescendants])
    /\ UNCHANGED <<wg, wgPeers, wgmux, wgDev>>

\* What a PutPeer call does: it puts the peer, fails, or never returns.
PutOutcomes == {"ok", "fail", "stall"}

\* One round of the loop of walkMeshDescendants: s.wg.PutPeer for a
\* descendant, in the order of Go's map iteration.  The first failure ends the
\* walk, and the loop goes on only when the call has returned.
RefreshPutPeer(t, id, outcome) ==
    /\ WgAt(t, "refresh", "walk")
    /\ wgCalls[t].stalled = {}
    /\ id \in wgCalls[t].todo
    /\ LET call == Touch(t, wgCalls[t], "call")
           peers == WalkPeers(BuildAdjacencyMap, nodeID)
           left == call.todo \ {id}
       IN  IF outcome = "stall"
           THEN /\ WgSet(t, [call EXCEPT !.todo = left, !.stalled = {id}])
                /\ UNCHANGED wgPeers
           ELSE IF outcome = "fail"
           THEN /\ WgSet(t, Leave(t, [call EXCEPT !.walkErr = TRUE,
                                                  !.putErr = TRUE],
                                  RefreshReturn(TRUE)))
                /\ UNCHANGED wgPeers
           ELSE /\ wgPeers' = PutPeers(wgPeers, peers, {id})
                /\ LET next == [call EXCEPT !.todo = left, !.put = @ \cup {id}]
                   IN  WgSet(t, IF left = {}
                                THEN Leave(t, next, RefreshReturn(FALSE))
                                ELSE next)
    /\ UNCHANGED <<wg, wgmux, wgDev>>

\* A step of ConfigureWireguard fails: the error is returned.
Fail(t, call, step) == Leave(t, [call EXCEPT !.failed = step], "err")

\* ConfigureWireguard up to wireguard.New: the firewall is created when there
\* is none, which is so at most until s.wg is set; the interface is created
\* when s.wg is nil, which sets s.wg.
ConfigureNew(t, fault) ==
    /\ wgCalls[t].op \in {"configure", "join"}
    /\ wgCalls[t].pc = "new"
    /\ LET call == Touch(t, wgCalls[t], "read")
       IN  IF fault \in {"firewall", "new"} /\ wg = "nil"
           THEN /\ WgSet(t, Fail(t, call, fault))
                /\ UNCHANGED wg
           ELSE /\ fault = "none"
                /\ WgSet(t, [call EXCEPT
                                !.pc = IF wg = "nil" THEN "up" ELSE "configure"])
                /\ wg' = IF wg = "nil" THEN "new" ELSE wg
    /\ UNCHANGED <<wgPeers, wgmux, wgDev>>

\* s.wg.Up on the interface just created.
ConfigureUp(t, fails) ==
    /\ wgCalls[t].op \in {"configure", "join"}
    /\ wgCalls[t].pc = "up"
    /\ LET call == Touch(t, wgCalls[t], "call")
       IN  /\ WgSet(t, IF fails THEN Fail(t, call, "up")
                       ELSE [call EXCEPT !.pc = "configure"])
           /\ wgDev' = IF fails THEN wgDev ELSE [wgDev EXCEPT !.up = TRUE]
    /\ UNCHANGED <<wg, wgPeers, wgmux>>

\* s.wg.Configure with the key and the listen port.
ConfigureDevice(t, fails) ==
    /\ wgCalls[t].op \in {"configure", "join"}
    /\ wgCalls[t].pc = "configure"
    /\ LET call == Touch(t, wgCalls[t], "call")
       IN  WgSet(t, IF fails THEN Fail(t, call, "configure")
                    ELSE [call EXCEPT !.pc = "route4"])
    /\ UNCHANGED <<wg, wgPeers, wgmux, wgDev>>

\* What the driver answers to AddRoute for the network of a family: an
\* error of the system, that the route exists, or nil.
RouteResult(fam, fault) ==
    IF fault = "other" THEN "other"
    ELSE IF fam \in wgDev.routes THEN "exists"
    ELSE "ok"

SwallowedOnlyNil(result) == result = "ok"

\* err != nil && !wireguard.IsRouteExists(err) does not hold: the call goes on.
Swallowed(result) == result \in {"ok", "exists"}

\* if network.IsValid() { s.wg.AddRoute(ctx, network) }, for the IPv4 network
\* and then for the IPv6 network.
ConfigureAddRoute(t, valid, fault) ==
    /\ wgCalls[t].op \in {"configure", "join"}
    /\ wgCalls[t].pc \in {"route4", "route6"}
    /\ LET fam == IF wgCalls[t].pc = "route4" THEN 4 ELSE 6
           after == IF fam = 4 THEN "route6" ELSE "forward"
           result == RouteResult(fam, fault)
           call == [Touch(t, wgCalls[t], "call") EXCEPT
                       !.addRoute = @ \cup {<<fam, result>>}]
       IN  IF ~valid
           THEN /\ fault = "none"
                /\ WgSet(t, [wgCalls[t] EXCEPT !.pc = after])
                /\ UNCHANGED wgDev
           ELSE /\ WgSet(t, IF Swallowed(result)
                            THEN [call EXCEPT !.pc = after]
                            ELSE Leave(t, call, "err"))
                /\ wgDev' = IF result = "ok"
                            THEN [wgDev EXCEPT !.routes = @ \cup {fam}]
                            ELSE wgDev
    /\ UNCHANGED <<wg, wgPeers, wgmux>>

\* s.fw.AddWireguardForwarding and, with the Masquerade option,
\* s.fw.AddMasquerade.
ConfigureFirewall(t, fault) ==
    /\ wgCalls[t].op \in {"configure", "join"}
    /\ wgCalls[t].pc = "forward"
    /\ LET call == Touch(t, wgCalls[t], "read")
           added == [call EXCEPT !.forwarded = TRUE]
       IN  /\ WgSet(t, IF fault = "forward" THEN Fail(t, call, fault)
                       ELSE IF fault = "masquerade" THEN Fail(t, added, fault)
                       ELSE Leave(t, added, "nil"))
           /\ wgDev' = IF fault = "forward" THEN wgDev
                       ELSE [wgDev EXCEPT !.forwarding = TRUE]
    /\ UNCHANGED <<wg, wgPeers, wgmux>>

JoinGoesOnAlways(call) == TRUE

\* store.join after its ConfigureWireguard: if err != nil { return ... }.
JoinGoesOn(call) == call.ret = "nil"

\* The deferred s.wgmux.Unlock() as the call returns.  store.join goes on
\* after a ConfigureWireguard that returned nil.
Unlock(t) ==
    /\ wgCalls[t].pc = "unlock"
    /\ wgmux = t
    /\ wgmux' = 0
    /\ LET call == wgCalls[t]
           done == call.op # "refresh" /\ call.ret = "nil"
       IN  /\ wg' = IF done THEN "up" ELSE wg
           /\ WgSet(t, IF call.op = "join" /\ JoinGoesOn(call)
                       THEN [call EXCEPT !.pc = "peers",
                                         !.todo = DOMAIN ResponsePeers]
                       ELSE [call EXCEPT !.pc = "returned"])
    /\ UNCHANGED <<wgPeers, wgDev>>

\* One goroutine of store.join's errgroup: s.wg.PutPeer for a peer of the
\* response.  g.Wait returns the first error once every goroutine has
\* returned.
JoinPutPeer(t, id, outcome) ==
    /\ WgAt(t, "join", "peers")
    /\ id \in wgCalls[t].todo
    /\ LET call == Touch(t, wgCalls[t], "call")
           left == call.todo \ {id}
           next == [call EXCEPT
                      !.todo = left,
                      !.put = IF outcome = "ok" THEN @ \cup {id} ELSE @,
                      !.stalled = IF outcome = "stall" THEN @ \cup {id} ELSE @,
                      !.putErr = @ \/ outcome = "fail"]
       IN  /\ wgPeers' = IF outcome = "ok"
                         THEN PutPeers(wgPeers, ResponsePeers, {id})
                         ELSE wgPeers
           /\ WgSet(t, IF left = {} /\ next.stalled = {}
                       THEN Leave(t, next, IF next.putErr THEN "err" ELSE "nil")
                       ELSE next)
    /\ UNCHANGED <<wg, wgmux, wgDev>>

\* The caller takes what the call returned.
WgReturn(t) ==
    /\ wgCalls[t].pc = "returned"
    /\ WgSet(t, IdleThread)
    /\ UNCHANGED <<wg, wgPeers, wgmux, wgDev>>

InitWgmux ==
    /\ meshNodes = NodeIDs
    /\ leases = NodeIDs \ NoLease
    /\ edges = {<<"A", "B">>, <<"A", "C">>, <<"B", "D">>}
    /\ acls = {}
    /\ routes = {}
    /\ filterRes = NoCall
    /\ againRes = NoCall
    /\ nodeID = "A"
    /\ wg = "nil"
    /\ wgPeers = EmptyMap
    /\ refreshRes = NoRefresh
    /\ NoJoin
    /\ Quiet

\* The calls run on a node without IPv4 and IPv6 networks to route, so that
\* no call adds a route.
NextWgmux ==
    \E t \in Threads :
        \/ \E op \in {"refresh", "configure", "join"} : WgCall(t, op)
        \/ RefreshCheck(t)
        \/ Lock(t)
        \/ \E fault \in BuildFaults : RefreshBuild(t, fault)
        \/ \E id \in NodeIDs, outcome \in PutOutcomes :
               RefreshPutPeer(t, id, outcome)
        \/ \E fault \in NewFaults : ConfigureNew(t, fault)
        \/ \E fails \in BOOLEAN : ConfigureUp(t, fails)
        \/ \E fails \in BOOLEAN : ConfigureDevice(t, fails)
        \/ ConfigureAddRoute(t, FALSE, "none")
        \/ \E fault \in {"none", "forward"} : ConfigureFirewall(t, fault)
        \/ Unlock(t)
        \/ \E id \in NodeIDs, outcome \in PutOutcomes :
               JoinPutPeer(t, id, outcome)
        \/ WgReturn(t)

SpecWgmux == InitWgmux /\ [][NextWgmux]_vars

\* One goroutine calls ConfigureWireguard again and again, with and without
\* networks to route, on a driver and a firewall that may fail at every call.
NextConfigure ==
    \/ WgCall(1, "configure")
    \/ Lock(1)
    \/ \E fault \in NewFaults : ConfigureNew(1, fault)
    \/ \E fails \in BOOLEAN : ConfigureUp(1, fails)
    \/ \E fails \in BOOLEAN : ConfigureDevice(1, fails)
    \/ \E valid \in BOOLEAN, fault \in RouteFaults :
           ConfigureAddRoute(1, valid, fault)
    \/ \E fault \in FirewallFaults : ConfigureFirewall(1, fault)
    \/ Unlock(1)
    \/ WgReturn(1)

SpecConfigure == InitWgmux /\ [][NextConfigure]_vars

\* A step of the call thread t is in.
WgStep(t) ==
    \/ RefreshCheck(t)
    \/ Lock(t)
    \/ \E fault \in BuildFaults : RefreshBuild(t, fault)
    \/ \E id \in NodeIDs, outcome \in PutOutcomes :
           RefreshPutPeer(t, id, outcome)
    \/ \E fault \in NewFaults : ConfigureNew(t, fault)
    \/ \E fails \in BOOLEAN : ConfigureUp(t, fails)
    \/ \E fails \in BOOLEAN : ConfigureDevice(t, fails)
    \/ ConfigureAddRoute(t, FALSE, "none")
    \/ \E fault \in {"none", "forward"} : ConfigureFirewall(t, fault)
    \/ Unlock(t)
    \/ \E id \in NodeIDs, outcome \in PutOutcomes :
           JoinPutPeer(t, id, outcome)
    \/ WgReturn(t)

\* Every goroutine that can take a step is scheduled.
SpecWgmuxFair == SpecWgmux /\ \A t \in Threads : WF_vars(WgStep(t))

\* --------------------------------------------- properties of the mutex

\* The calls that are between s.wgmux.Lock() and the deferred Unlock.
InSection(t) ==
    /\ wgCalls[t].op \in {"refresh", "configure", "join"}
    /\ wgCalls[t].pc \in {"build", "walk", "new", "up", "configure", "route4",
                         "route6", "forward", "unlock"}

\* C25: at most one RefreshWireguardPeers or ConfigureWireguard call is
\* between acquiring and releasing s.wgmux, the call that is there holds it,
\* and no such call has called the driver outside its section.
C25_OneCallInsideWgmux ==
    /\ \A t, u \in Threads : InSection(t) /\ InSection(u) => t = u
    /\ \A t \in Threads : InSection(t) <=> wgmux = t
    /\ \A t \in Threads :
         wgCalls[t].op \in {"refresh", "configure"} => ~wgCalls[t].bareCall

\* C25 witness: a reconcile has put a peer and is in its walk while a
\* ConfigureWireguard call waits for the mutex.
C25_Witness ==
    \E t, u \in Threads :
        /\ WgAt(t, "refresh", "walk")
        /\ wgCalls[t].put # {}
        /\ WgAt(u, "configure", "lock")


\* A reconcile has issued a PutPeer to the driver.
IssuedPutPeer(t) ==
    /\ wgCalls[t].op = "refresh"
    /\ wgCalls[t].put # {} \/ wgCalls[t].putErr

\* C26 as stated: a reconcile issues a PutPeer only after a ConfigureWireguard
\* call has returned nil.
C26_PutPeerOnlyAfterConfigureSucceeded ==
    \A t \in Threads : IssuedPutPeer(t) => wg = "up"

\* C26: a reconcile issues a PutPeer only when a ConfigureWireguard call has
\* created the interface (s.wg is not nil), and a reconcile that finds s.wg
\* nil returns nil at once, with no driver call.
C26_PutPeerOnlyWithHandle ==
    /\ [](\A t \in Threads : IssuedPutPeer(t) => wg # "nil")
    /\ [][\A t \in Threads :
            WgAt(t, "refresh", "check") /\ wg = "nil"
                /\ wgCalls'[t] # wgCalls[t]
            => /\ wgCalls'[t].pc = "returned"
               /\ wgCalls'[t].ret = "nil"
               /\ wgCalls'[t].put = {}
               /\ ~wgCalls'[t].putErr
               /\ ~wgCalls'[t].bareCall
               /\ wgPeers' = wgPeers
               /\ wgmux' = wgmux]_vars

\* C26 witness: the only ConfigureWireguard call so far created the interface
\* and then failed; the reconcile that followed has put a peer.
C26_Witness ==
    \E t, u \in Threads :
        /\ wg = "new"
        /\ wgCalls[u].pc = "idle"
        /\ WgAt(t, "refresh", "walk")
        /\ wgCalls[t].put # {}
        /\ wgPeers # EmptyMap


\* ------------------------------ properties of reconciling after a failure

\* C27: when a reconcile that stopped part-way is followed, over the same
\* graph, by a reconcile in which nothing fails, the driver holds exactly the
\* peers derived from the graph.
C27_ConvergesAfterPartialFailure ==
    [][( /\ refreshRes.called /\ refreshRes.walkErr
         /\ refreshRes'.called /\ ~refreshRes'.walkErr /\ ~refreshRes'.err
         /\ wg # "nil" )
       => wgPeers' = WalkPeers(BuildAdjacencyMap, nodeID)]_vars


\* C28: no call has read s.wg, or called the driver through it, without
\* holding s.wgmux.
C28_HandleOnlyUnderWgmux ==
    \A t \in Threads : ~wgCalls[t].bare


\* A RefreshWireguardPeers call that has returned.
RefreshReturned(t) == WgAt(t, "refresh", "returned")

\* C29: a RefreshWireguardPeers call returns nil when walkMeshDescendants
\* failed, returns an error exactly when the graph build failed, and has
\* released s.wgmux when it returns.
C29_RefreshReturnsBuildErrorOnly ==
    \A t \in Threads :
        RefreshReturned(t) =>
            /\ wgCalls[t].walkErr => wgCalls[t].ret = "nil"
            /\ wgCalls[t].ret # "nil" <=> wgCalls[t].buildErr
            /\ wgmux # t

\* C29 witness: one call has returned nil after the adjacency map failed,
\* another an error after the graph build failed, and the mutex is free.
C29_Witness ==
    \E t, u \in Threads :
        /\ RefreshReturned(t)
        /\ wgCalls[t].walkErr /\ ~wgCalls[t].putErr
        /\ wgCalls[t].ret = "nil"
        /\ RefreshReturned(u)
        /\ wgCalls[u].buildErr
        /\ wgCalls[u].ret = "err"
        /\ wgmux = 0

\* C30 as stated: a reconcile in which a PutPeer failed reports an error.
C30_PutPeerFailureReported ==
    \A t \in Threads :
        RefreshReturned(t) /\ wgCalls[t].putErr => wgCalls[t].ret = "err"

\* C30: a reconcile in which a PutPeer failed returns nil, and store.join,
\* when a PutPeer of its task group failed, returns an error; in both the
\* peers already put stay on the driver.
C30_PutPeerFailureLoggedPeersStay ==
    \A t \in Threads :
        wgCalls[t].pc = "returned" /\ wgCalls[t].putErr =>
            /\ wgCalls[t].op = "refresh" => wgCalls[t].ret = "nil"
            /\ wgCalls[t].op = "join" => wgCalls[t].ret = "err"
            /\ wgCalls[t].put \subseteq DOMAIN wgPeers

\* C30 witness: a reconcile has put one peer, failed on the next and
\* returned; the driver holds the peer that was put.
C30_Witness ==
    \E t \in Threads :
        /\ RefreshReturned(t)
        /\ wgCalls[t].putErr
        /\ wgCalls[t].put # {}
        /\ wgCalls[t].todo # {}
        /\ DOMAIN wgPeers = wgCalls[t].put


\* ------------------------------------- properties of a stalled PutPeer

\* C31: once a PutPeer of a reconcile has stalled, the PutPeer calls for all
\* other peers of that reconcile are eventually issued.
C31_OtherPeersIssuedDespiteStall ==
    \A t \in Threads :
        (WgAt(t, "refresh", "walk") /\ wgCalls[t].stalled # {})
            ~> (wgCalls[t].todo = {})


\* ------------------------------- properties of ConfigureWireguard's steps

\* A ConfigureWireguard call that is returning or has returned.
ConfigureReturns(t) ==
    /\ wgCalls[t].op = "configure"
    /\ wgCalls[t].pc \in {"unlock", "returned"}

\* The driver answered an AddRoute of the call with the given result.
Answered(t, result) == \E r \in wgCalls[t].addRoute : r[2] = result

\* C32: a ConfigureWireguard call returns nil exactly when no step failed and
\* no AddRoute was answered with an error other than RouteExists; after such
\* another error it returns an error without having added the forwarding
\* rule; after a RouteExists it goes on to the firewall rules.
C32_RouteExistsSwallowed ==
    \A t \in Threads :
        ConfigureReturns(t) =>
            /\ wgCalls[t].ret = "nil"
                 <=> (wgCalls[t].failed = "" /\ ~Answered(t, "other"))
            /\ Answered(t, "other") =>
                 wgCalls[t].ret = "err" /\ ~wgCalls[t].forwarded
            /\ Answered(t, "exists") /\ ~Answered(t, "other") =>
                 wgCalls[t].forwarded \/ wgCalls[t].failed = "forward"

\* C32 witness: a call made again with the same two networks got RouteExists
\* for both and has returned nil.
C32_Witness ==
    \E t \in Threads :
        /\ WgAt(t, "configure", "returned")
        /\ wgCalls[t].addRoute = {<<4, "exists">>, <<6, "exists">>}
        /\ wgCalls[t].ret = "nil"
        /\ wgCalls[t].forwarded
        /\ wgDev.routes = {4, 6}


\* ------------------------------- properties of FilterGraph's edge targets

\* Every edge of an adjacency map leads to the observer or to a node that
\* has a row in the map.
NoDanglingEdges(map, observer) ==
    \A n \in DOMAIN map : \A p \in map[n] : p = observer \/ p \in DOMAIN map

\* C33: the map FilterGraph returns has no dangling edges.
C33_NoDanglingEdges ==
    /\ filterRes.called /\ ~filterRes.err =>
         NoDanglingEdges(filterRes.map, filterRes.observer)
    /\ againRes.called /\ ~againRes.err =>
         NoDanglingEdges(againRes.map, againRes.observer)

\* C33 witness: FilterGraph kept a node that has an edge to a node it
\* dropped, and the map it returned has a row for the one and neither a row
\* nor an edge for the other.
C33_Witness ==
    /\ filterRes.called /\ ~filterRes.err
    /\ \E n \in DOMAIN filterRes.map \ {filterRes.observer} :
         \E q \in BuildAdjacencyMap[n] :
            /\ q # filterRes.observer
            /\ q \notin DOMAIN filterRes.map
            /\ q \notin filterRes.map[n]


\* ------------------------------------ reconciling graphs with shared targets

\* The edges of a graph in which the direct descendants B and C of the local
\* node A both have an edge to D, and B has one back to A.
DiamondEdges ==
    {<<"A", "B">>, <<"A", "C">>, <<"B", "D">>, <<"C", "D">>, <<"B", "A">>}

\* The node reconciles on any graph made of these edges.
InitDiamond ==
    /\ meshNodes = NodeIDs
    /\ leases = NodeIDs \ NoLease
    /\ edges \in SUBSET DiamondEdges
    /\ acls = {}
    /\ routes = {}
    /\ filterRes = NoCall
    /\ againRes = NoCall
    /\ nodeID = "A"
    /\ wg = "nil"
    /\ wgPeers = EmptyMap
    /\ refreshRes = NoRefresh
    /\ NoJoin
    /\ Quiet

NextDiamond ==
    \/ ConfigureWireguard
    \/ \E buildFails \in BOOLEAN, put \in SUBSET NodeIDs :
           RefreshWireguardPeers(buildFails, put)

SpecDiamond == InitDiamond /\ [][NextDiamond]_vars

\* C34: the peers one reconcile has put share no allowed IP, and none of them
\* holds a prefix of the local node.
C34_AllowedIPsDisjoint ==
    refreshRes.called =>
        /\ \A d, e \in DOMAIN refreshRes.peers :
             d # e => refreshRes.peers[d] \cap refreshRes.peers[e] = {}
        /\ \A d \in DOMAIN refreshRes.peers :
             refreshRes.peers[d] \cap {PrivateIpv4(nodeID), PrivateIpv6(nodeID)} = {}


\* The step in which call c, having looked the peer up, goes on.
Looked(c) ==
    /\ joinCalls[c].pc = "get"
    /\ joinCalls'[c].pc \notin {"get", "done"}

\* A Join of the id has failed after the node record was created, and none
\* has succeeded: the record is there and the id was never added as a
\* non-voter.
PartlyJoined(id) ==
    /\ id \in DOMAIN peersTable
    /\ id \notin DOMAIN raftServers

\* C35: a Join that finds the record of its id takes the existing-node path
\* (it updates, it does not create); the record keeps its IPv6 network, an
\* ASN once assigned and a lease once acquired stay what they are, and no
\* host is leased twice, so a retry after a Join that failed part-way leaves
\* one record and at most one lease for the id.
C35_RetryTakesExistingPath ==
    /\ [](\A id \in DOMAIN leaseTable :
            \A other \in DOMAIN leaseTable \ {id} :
                leaseTable[other] # leaseTable[id])
    /\ [][\A c \in Calls :
            Looked(c) /\ joinCalls[c].req.Id \in DOMAIN peersTable =>
                joinCalls'[c].pc = "update"]_vars
    /\ [][\A id \in DOMAIN peersTable :
            /\ id \in DOMAIN peersTable'
            /\ peersTable'[id].NetworkIPv6 = peersTable[id].NetworkIPv6]_vars
    /\ [][\A id \in DOMAIN asnTable :
            id \in DOMAIN asnTable' /\ asnTable'[id] = asnTable[id]]_vars
    /\ [][\A id \in DOMAIN leaseTable :
            id \in DOMAIN leaseTable' /\ leaseTable'[id] = leaseTable[id]]_vars

\* C35 witness: a Join that asked for an ASN and a lease failed at the
\* addition of the non-voter; the retry found the record with both, went
\* through the update and the lease again and is about to add the non-voter,
\* with the lease the failed attempt acquired.
C35_Witness ==
    \E c \in Calls :
        LET call == joinCalls[c]
            id == call.req.Id
        IN  /\ call.pc = "raft"
            /\ PartlyJoined(id)
            /\ call.peer.PrivateIPv4 # 0
            /\ call.peer.ASN # 0
            /\ call.lease = leaseTable[id]
            /\ call.lease = call.peer.PrivateIPv4
            /\ asnTable[id] = call.peer.ASN


\* ------------------------------------- store.join from the loop to the peers

\* After the loop, with a response: the networks of the response are parsed
\* (a network that does not parse ends the join with the error) and
\* s.ConfigureWireguard is called.
JoinConfigure(t, parseFails) ==
    /\ LoopAt("done")
    /\ joinLoop.ret = "response"
    /\ wgCalls[t].pc = "idle"
    /\ IF parseFails
       THEN /\ joinLoop' = [joinLoop EXCEPT !.ret = "parse"]
            /\ UNCHANGED wgCalls
       ELSE /\ joinLoop' = [joinLoop EXCEPT !.pc = "wireguard",
                                            !.configured = @ + 1]
            /\ wgCalls' = [wgCalls EXCEPT ![t] =
                  [IdleThread EXCEPT !.op = "join", !.pc = "lock"]]
    /\ UNCHANGED <<meshNodes, leases, edges, policyVars, wireguardVars,
                   joinVars, putRes, meshStore, wgmux, wgDev>>

\* store.join returns: the error of ConfigureWireguard, the first error of
\* the errgroup, or nil.
JoinFinish(t) ==
    /\ LoopAt("wireguard")
    /\ WgAt(t, "join", "returned")
    /\ joinLoop' = LoopReturn(wgCalls[t].ret)
    /\ wgCalls' = [wgCalls EXCEPT ![t] = IdleThread]
    /\ UNCHANGED <<meshNodes, leases, edges, policyVars, wireguardVars,
                   joinVars, putRes, meshStore, wgmux, wgDev>>

\* One goroutine runs store.join from its first attempt to its return, on a
\* node without networks to route.
NextClientJoin ==
    \/ \E max \in 0..MaxJoinRetries : JoinLoopEnter(max)
    \/ JoinLoopTest
    \/ \E fails \in BOOLEAN : JoinLoopDial(fails)
    \/ \E fails \in BOOLEAN : JoinLoopRPC(fails)
    \/ JoinLoopSleep
    \/ JoinLoopAfter
    \/ JoinLoopCancel
    \/ \E parseFails \in BOOLEAN : JoinConfigure(1, parseFails)
    \/ Lock(1)
    \/ \E fault \in NewFaults : ConfigureNew(1, fault)
    \/ \E fails \in BOOLEAN : ConfigureUp(1, fails)
    \/ \E fails \in BOOLEAN : ConfigureDevice(1, fails)
    \/ ConfigureAddRoute(1, FALSE, "none")
    \/ \E fault \in {"none", "forward"} : ConfigureFirewall(1, fault)
    \/ Unlock(1)
    \/ \E id \in NodeIDs, outcome \in PutOutcomes : JoinPutPeer(1, id, outcome)
    \/ JoinFinish(1)
    \/ joinLoop.ret # "response" /\ JoinLoopReturn

SpecClientJoin == InitWgmux /\ [][NextClientJoin]_vars

\* The step in which store.join calls s.wg.PutPeer for a peer of the response.
JoinPuts(t) ==
    /\ WgAt(t, "join", "peers")
    /\ wgCalls'[t].todo # wgCalls[t].todo

\* The step in which ConfigureWireguard, called by store.join, returns.
JoinConfigured(t) ==
    /\ wgCalls[t].op = "join"
    /\ wgCalls[t].pc = "unlock"
    /\ wgCalls'[t].pc # "unlock"

\* C36: store.join calls ConfigureWireguard only with a Join response in
\* hand and at most once; it calls PutPeer only for peers of the response and
\* only once that call has returned nil; a join whose attempts all failed
\* returns an error and has called neither.
C36_ConfigureAfterResponseThenPeers ==
    /\ [](joinLoop.configured <= 1)
    /\ [](joinLoop.configured = 1 \/ wgCalls[1].op = "join" =>
            joinLoop.resp /\ joinLoop.rpcs >= 1)
    /\ [](LoopAt("done") /\ ~joinLoop.resp =>
            /\ joinLoop.ret \in {"failed", "ctx"}
            /\ joinLoop.configured = 0
            /\ wgCalls[1] = IdleThread)
    /\ [][\A t \in Threads :
            /\ JoinConfigured(t) /\ wgCalls[t].ret # "nil" =>
                  /\ wgCalls'[t].pc = "returned"
                  /\ wgCalls'[t].put = {}
                  /\ wgCalls'[t].todo = {}
            /\ JoinPuts(t) =>
                  /\ joinLoop.configured = 1
                  /\ wg = "up"
                  /\ wgCalls[t].failed = ""
                  /\ wgCalls[t].todo \subseteq DOMAIN ResponsePeers]_vars
    /\ [](LoopAt("done") /\ joinLoop.ret = "nil" =>
            joinLoop.configured = 1 /\ wg = "up")

\* C36 witness: the first attempt failed and the second brought a response;
\* ConfigureWireguard returned nil and every peer of the response has been
\* put on the interface; store.join has returned nil.
C36_Witness ==
    /\ LoopAt("done")
    /\ joinLoop.ret = "nil"
    /\ joinLoop.tries >= 1
    /\ joinLoop.configured = 1
    /\ DOMAIN wgPeers = DOMAIN ResponsePeers


\* C37: whenever a ConfigureWireguard call returns nil, the interface has
\* been created and brought up.
C37_SuccessMeansInterfaceUp ==
    \A t \in Threads :
        ConfigureReturns(t) /\ wgCalls[t].ret = "nil" =>
            wg # "nil" /\ wgDev.up


\* The Open that ran has returned an error.
OpenFailed ==
    /\ meshStore.pc = "returned"
    /\ meshStore.ret # "nil"

\* C38: Open answers ErrOpen only for a store that is marked open; an Open
\* that returned another error leaves the store not marked open, and the
\* Open that follows it is not answered with ErrOpen.
C38_FailedOpenLeavesStoreClosed ==
    /\ [](meshStore.again = "ErrOpen" => meshStore.open)
    /\ [](OpenFailed => ~meshStore.open)
    /\ [][OpenFailed => meshStore'.again # "ErrOpen"]_vars

====
